---- MODULE Spec2Model ----
(***************************************************************************)
(* Model of the execution engine of organize-media                         *)
(* (src/src/file_operations.py): FileOperations.execute_plan with its      *)
(* per-operation handlers, the backup records, the execution reports,      *)
(* undo_last_operation and cleanup_empty_directories, over an explicit     *)
(* filesystem; of AIOrganizer.validate_suggestions                         *)
(* (src/src/ai_organizer.py); and of TreeGenerator                         *)
(* (src/src/tree_generator.py).                                            *)
(*                                                                         *)
(* Strings are sequences of one-character strings, so that Python's string *)
(* order, pathlib's stem/suffix split and the "%02d" format are computed   *)
(* and not assumed.  A path is the string of its POSIX spelling.           *)
(***************************************************************************)
EXTENDS Integers, Sequences, FiniteSets, TLC

\* ------------------------------------------------------------------------
\* Bounds of the model
\* ------------------------------------------------------------------------
\* number of execute_plan calls in one behaviour
MaxRuns == 2
\* number of suggestions executed in one behaviour, over all runs
MaxOps == 2
\* last instant of the clock, in ticks
MaxTime == 1
\* largest max_depth given to generate_tree
MaxDepth == 2
\* clock ticks per second of wall-clock time
TicksPerSec == 1

\* ------------------------------------------------------------------------
\* Strings
\* ------------------------------------------------------------------------
\* the characters of the model, in ascending code-point order
Alphabet ==
    <<".", "/", "0", "1", "2", "3", "4", "5", "6", "7", "8", "9", "M", "_",
      "a", "b", "c", "d", "e", "f", "g", "h", "i", "j", "k", "l", "m",
      "n", "o", "p", "q", "r", "s", "t", "u", "v", "w", "x", "y", "z">>

Ord(c) == CHOOSE i \in 1..Len(Alphabet) : Alphabet[i] = c

\* s < t in Python's str order (code point by code point, a proper prefix
\* is smaller)
StrLess(s, t) ==
    \E i \in 1..Len(t) :
        /\ i - 1 <= Len(s)
        /\ \A j \in 1..(i - 1) : s[j] = t[j]
        /\ (i <= Len(s) => Ord(s[i]) < Ord(t[i]))

StartsWith(s, pre) == Len(s) >= Len(pre) /\ SubSeq(s, 1, Len(pre)) = pre

EndsWith(s, suf) ==
    Len(s) >= Len(suf) /\ SubSeq(s, Len(s) - Len(suf) + 1, Len(s)) = suf

Digit(n) == Alphabet[n + 3]

RECURSIVE Decimal(_)
Decimal(n) == IF n < 10 THEN <<Digit(n)>>
              ELSE Decimal(n \div 10) \o <<Digit(n % 10)>>

\* f"{n:02d}"
Fmt02(n) == IF n < 10 THEN <<"0">> \o Decimal(n) ELSE Decimal(n)

\* ------------------------------------------------------------------------
\* Paths (pathlib.PurePosixPath)
\* ------------------------------------------------------------------------
Slash == <<"/">>

\* index of the last "/" of p, 0 when there is none
LastSlash(p) ==
    LET I == {i \in 1..Len(p) : p[i] = "/"}
    IN  IF I = {} THEN 0 ELSE CHOOSE i \in I : \A j \in I : j <= i

\* Path.parent
Parent(p) == SubSeq(p, 1, LastSlash(p) - 1)

\* Path.name
Name(p) == SubSeq(p, LastSlash(p) + 1, Len(p))

\* index of the dot that starts the suffix of a name, 0 when the name has
\* no suffix (no dot, a leading dot only, or a trailing dot)
SuffixDot(name) ==
    LET I == {i \in 1..Len(name) : name[i] = "."}
        i == IF I = {} THEN 0 ELSE CHOOSE k \in I : \A j \in I : j <= k
    IN  IF 1 < i /\ i < Len(name) THEN i ELSE 0

\* Path.suffix
Suffix(p) ==
    LET n == Name(p)
    IN  IF SuffixDot(n) = 0 THEN <<>> ELSE SubSeq(n, SuffixDot(n), Len(n))

\* Path.stem
Stem(p) ==
    LET n == Name(p)
    IN  IF SuffixDot(n) = 0 THEN n ELSE SubSeq(n, 1, SuffixDot(n) - 1)

\* base / rel  (an absolute right operand replaces the left one)
Join(base, rel) ==
    IF rel = <<>> THEN base
    ELSE IF rel[1] = "/" THEN rel
    ELSE base \o Slash \o rel

\* the proper ancestors of p below the root directory
Ancestors(p) == {SubSeq(p, 1, i - 1) : i \in {k \in 2..Len(p) : p[k] = "/"}}

\* p is d or lies below d
Under(p, d) == p = d \/ StartsWith(p, d \o Slash)

\* ------------------------------------------------------------------------
\* The filesystem: a function from the paths that exist to their entries.
\* Every existing path other than "/" has an existing directory as parent;
\* the root directory "/" is the empty prefix and always exists.
\* ------------------------------------------------------------------------
NoData == [none |-> 0]

DirEntry == [kind |-> "dir", size |-> 0, mtime |-> 0, data |-> NoData]

\* a media file: its content is identified by id
MediaFile(id, size, mtime) ==
    [kind |-> "file", size |-> size, mtime |-> mtime, data |-> [media |-> id]]

\* a JSON file written by the program: only its content is modelled
JsonFile(content) ==
    [kind |-> "file", size |-> 0, mtime |-> 0, data |-> content]

\* Path.exists()
Exists(f, p) == p = <<>> \/ p \in DOMAIN f

\* Path.is_dir()
IsDir(f, p) == p = <<>> \/ (p \in DOMAIN f /\ f[p].kind = "dir")

\* Path.is_file()
IsFile(f, p) == p \in DOMAIN f /\ f[p].kind = "file"

\* the st_size of a directory depends on the filesystem type: StSize takes
\* it as the argument dsz
StSize(f, p, dsz) == IF f[p].kind = "dir" THEN dsz ELSE f[p].size

Put(f, p, e) == [q \in DOMAIN f \cup {p} |-> IF q = p THEN e ELSE f[q]]

Remove(f, P) == [q \in DOMAIN f \ P |-> f[q]]

Ok(f) == [ok |-> TRUE, fs |-> f, err |-> "" ]

Err(f, msg) == [ok |-> FALSE, fs |-> f, err |-> msg]

\* Path.mkdir(parents=parents, exist_ok=True): os.mkdir, with the missing
\* ancestors created first when parents is set
Mkdir(f, p, parents) ==
    IF p \in DOMAIN f
    THEN IF f[p].kind = "dir" THEN Ok(f) ELSE Err(f, "File exists")
    ELSE IF \E a \in Ancestors(p) : IsFile(f, a)
    THEN Err(f, IF IsFile(f, Parent(p)) /\ parents
                THEN "File exists" ELSE "Not a directory")
    ELSE IF \A a \in Ancestors(p) : Exists(f, a)
    THEN Ok(Put(f, p, DirEntry))
    ELSE IF parents
    THEN Ok([q \in DOMAIN f \cup Ancestors(p) \cup {p} |->
                IF q \in DOMAIN f THEN f[q] ELSE DirEntry])
    ELSE Err(f, "No such file or directory")

\* Path.unlink()
Unlink(f, p) ==
    IF IsFile(f, p) THEN Ok(Remove(f, {p}))
    ELSE IF p \in DOMAIN f THEN Err(f, "Is a directory")
    ELSE Err(f, "No such file or directory")

\* os.rename(src, dst) on one filesystem; a directory moves with all the
\* paths below it
Rename(f, src, dst) ==
    IF src \notin DOMAIN f THEN Err(f, "No such file or directory")
    ELSE IF ~IsDir(f, Parent(dst)) THEN Err(f, "No such file or directory")
    ELSE IF src = dst THEN Ok(f)
    ELSE IF f[src].kind = "file"
    THEN IF IsDir(f, dst) THEN Err(f, "Is a directory")
         ELSE Ok(Put(Remove(f, {src}), dst, f[src]))
    ELSE IF Under(dst, src) THEN Err(f, "Cannot move a directory into itself")
    ELSE IF dst \in DOMAIN f THEN Err(f, "Destination path already exists")
    ELSE LET Moved  == {q \in DOMAIN f : Under(q, src)}
             To(q)  == dst \o SubSeq(q, Len(src) + 1, Len(q))
             From(r) == src \o SubSeq(r, Len(dst) + 1, Len(r))
         IN  Ok([r \in (DOMAIN f \ Moved) \cup {To(q) : q \in Moved} |->
                    IF Under(r, dst) THEN f[From(r)] ELSE f[r]])

\* shutil.move(src, dst): into dst when dst is an existing directory,
\* otherwise a rename onto dst
ShutilMove(f, src, dst) ==
    IF IsDir(f, dst) /\ src # dst
    THEN LET real_dst == dst \o Slash \o Name(src)
         IN  IF Exists(f, real_dst)
             THEN Err(f, "Destination path already exists")
             ELSE Rename(f, src, real_dst)
    ELSE Rename(f, src, dst)

\* ------------------------------------------------------------------------
\* FileOperations: names, records and the pure helpers
\* ------------------------------------------------------------------------
\* self.base_path
BasePath == <<"/", "r">>

\* self.base_path / ".organize_backup"
BackupDir ==
    Join(BasePath, <<".", "o", "r", "g", "a", "n", "i", "z", "e", "_",
                     "b", "a", "c", "k", "u", "p">>)

\* self.base_path / ".organize_reports"
ReportsDir ==
    Join(BasePath, <<".", "o", "r", "g", "a", "n", "i", "z", "e", "_",
                     "r", "e", "p", "o", "r", "t", "s">>)

BackupPrefix == <<"b", "a", "c", "k", "u", "p", "_">>

ReportPrefix == <<"e", "x", "e", "c", "u", "t", "i", "o", "n", "_",
                  "r", "e", "p", "o", "r", "t", "_">>

JsonSuffix == <<".", "j", "s", "o", "n">>

\* datetime.strftime('%Y%m%d_%H%M%S'): the instant t truncated to whole
\* seconds, in fixed-width decimal
Stamp(t) == Fmt02(t \div TicksPerSec)

\* OperationResult.bytes_moved and .error_message when they are None
NoBytes == -1

NoError == "None"

OperationResult(success, operation, source_path, destination_path, error_message, bytes_moved) ==
    [success |-> success, operation |-> operation,
     source_path |-> source_path, destination_path |-> destination_path,
     error_message |-> error_message, bytes_moved |-> bytes_moved]

\* the sort key of execute_plan:
\* (0 if x.operation == 'create_directory' else 1, x.destination_path)
OpRank(x) == IF x.operation = "create_directory" THEN 0 ELSE 1

\* the key without its first component
KeyLess_ByDestinationOnly(x, y) ==
    StrLess(x.destination_path, y.destination_path)

KeyLess(x, y) ==
    \/ OpRank(x) < OpRank(y)
    \/ OpRank(x) = OpRank(y) /\ StrLess(x.destination_path, y.destination_path)

\* sorted(plan.suggestions, key=...): a stable sort, computed by insertion
InsertSorted(seq, x) ==
    LET After == {k \in 1..Len(seq) : KeyLess(x, seq[k])}
        pos   == IF After = {} THEN Len(seq) + 1
                 ELSE CHOOSE k \in After : \A j \in After : k <= j
    IN  SubSeq(seq, 1, pos - 1) \o <<x>> \o SubSeq(seq, pos, Len(seq))

RECURSIVE SortedSuggestions(_)
SortedSuggestions(seq) ==
    IF seq = <<>> THEN <<>>
    ELSE InsertSorted(SortedSuggestions(SubSeq(seq, 1, Len(seq) - 1)),
                      seq[Len(seq)])

\* _should_overwrite(source_path, dest_path); ds and dd are the st_size of
\* the source and of the destination when they are directories
ShouldOverwrite(f, source_path, dest_path, ds, dd) ==
    IF ~Exists(f, dest_path) THEN FALSE
    ELSE LET source_size == StSize(f, source_path, ds)
             dest_size   == StSize(f, dest_path, dd)
         IN  IF source_size > dest_size THEN TRUE
             ELSE IF source_size = dest_size
             THEN f[source_path].mtime > f[dest_path].mtime
             ELSE FALSE

\* _get_unique_destination(dest_path): the loop, entered with counter
RECURSIVE UniqueFrom(_, _, _)
UniqueFrom(f, dest_path, counter) ==
    LET new_name == Stem(dest_path) \o <<".">> \o Fmt02(counter)
                        \o Suffix(dest_path)
        new_path == Parent(dest_path) \o Slash \o new_name
    IN  IF ~Exists(f, new_path) THEN new_path
        ELSE UniqueFrom(f, dest_path, counter + 1)

GetUniqueDestination(f, dest_path) == UniqueFrom(f, dest_path, 1)

\* _create_backup_info(source_path, dest_path) at the instant t
CreateBackupInfo(f, source_path, dest_path, t, ds) ==
    LET made == Mkdir(f, BackupDir, FALSE)
        backup_info ==
            [timestamp |-> t, operation |-> "move",
             source |-> source_path, destination |-> dest_path,
             source_size |-> IF Exists(f, source_path)
                             THEN StSize(f, source_path, ds) ELSE 0]
        backup_file ==
            BackupDir \o Slash \o BackupPrefix \o Stamp(t) \o JsonSuffix
    IN  IF ~made.ok THEN made
        ELSE IF IsDir(made.fs, backup_file) THEN Err(made.fs, "Is a directory")
        ELSE Ok(Put(made.fs, backup_file, JsonFile(backup_info)))

\* _save_execution_report(report)
SaveExecutionReport(f, rep) ==
    LET made == Mkdir(f, ReportsDir, FALSE)
        report_file ==
            ReportsDir \o Slash \o ReportPrefix \o Stamp(rep.start_time)
                \o JsonSuffix
    IN  IF ~made.ok THEN made
        ELSE IF IsDir(made.fs, report_file) THEN Err(made.fs, "Is a directory")
        ELSE Ok(Put(made.fs, report_file, JsonFile(rep)))

\* _create_directory that treats an existing destination as an error
CreateDirectory_FailingOnExisting(f, suggestion, dry) ==
    LET dest_path == Join(BasePath, suggestion.destination_path)
        made      == Mkdir(f, dest_path, TRUE)
        good      == OperationResult(TRUE, "create_directory", <<>>,
                                     dest_path, NoError, NoBytes)
    IN  IF dry THEN [fs |-> f, result |-> good]
        ELSE IF Exists(f, dest_path)
        THEN [fs |-> f,
              result |-> OperationResult(FALSE, "create_directory", <<>>,
                                         dest_path, "File exists", NoBytes)]
        ELSE IF made.ok THEN [fs |-> made.fs, result |-> good]
        ELSE [fs |-> f,
              result |-> OperationResult(FALSE, "create_directory", <<>>,
                                         dest_path, made.err, NoBytes)]

\* _create_directory without its dry-run branch
CreateDirectory_IgnoringDryRun(f, suggestion, dry) ==
    LET dest_path == Join(BasePath, suggestion.destination_path)
        made      == Mkdir(f, dest_path, TRUE)
        good      == OperationResult(TRUE, "create_directory", <<>>,
                                     dest_path, NoError, NoBytes)
    IN  IF Exists(f, dest_path) THEN [fs |-> f, result |-> good]
        ELSE IF made.ok THEN [fs |-> made.fs, result |-> good]
        ELSE [fs |-> f,
              result |-> OperationResult(FALSE, "create_directory", <<>>,
                                         dest_path, made.err, NoBytes)]

\* _create_directory(suggestion): the filesystem afterwards and the result
CreateDirectory(f, suggestion, dry) ==
    LET dest_path == Join(BasePath, suggestion.destination_path)
        made      == Mkdir(f, dest_path, TRUE)
        good      == OperationResult(TRUE, "create_directory", <<>>,
                                     dest_path, NoError, NoBytes)
    IN  IF dry THEN [fs |-> f, result |-> good]
        ELSE IF Exists(f, dest_path) THEN [fs |-> f, result |-> good]
        ELSE IF made.ok THEN [fs |-> made.fs, result |-> good]
        ELSE [fs |-> f,
              result |-> OperationResult(FALSE, "create_directory", <<>>,
                                         dest_path, made.err, NoBytes)]

\* the end of the try block of _move_file and its except clause: the
\* result of a move that shutil.move has performed or refused
MoveOutcome(source_path, final, file_size, how, moved) ==
    IF moved.ok
    THEN [fs |-> moved.fs, how |-> how,
          result |-> OperationResult(TRUE, "move", source_path, final,
                                     NoError, file_size)]
    ELSE [fs |-> moved.fs, how |-> "exception",
          result |-> OperationResult(FALSE, "move", source_path, final,
                                     moved.err, NoBytes)]

\* _move_file from the conflict test on, made being the outcome of the
\* backup record and of dest_path.parent.mkdir
MoveReal(source_path, dest_path, file_size, made, ds, dd) ==
    LET conflict == made.ok /\ Exists(made.fs, dest_path)
        over     == conflict
                    /\ ShouldOverwrite(made.fs, source_path, dest_path, ds, dd)
        cleared  == IF made.ok /\ over THEN Unlink(made.fs, dest_path)
                    ELSE made
        final    == IF conflict /\ ~over
                    THEN GetUniqueDestination(made.fs, dest_path)
                    ELSE dest_path
    IN  MoveOutcome(source_path, final, file_size,
                    IF over THEN "overwrite"
                    ELSE IF conflict THEN "unique" ELSE "free",
                    IF cleared.ok
                    THEN ShutilMove(cleared.fs, source_path, final)
                    ELSE cleared)

\* dest_path.parent.mkdir(parents=True, exist_ok=True) after the backup
\* record, unless writing the record raised
MakeParent(saved, dest_path) ==
    IF saved.ok THEN Mkdir(saved.fs, Parent(dest_path), TRUE) ELSE saved

\* _move_file that writes the backup record before it looks for the source
MoveFile_RecordingBeforeSourceCheck(f, suggestion, dry, backup, t, ds, dd) ==
    LET source_path == Join(BasePath, suggestion.source_path)
        dest_path   == Join(BasePath, suggestion.destination_path)
        file_size   == IF IsFile(f, source_path) THEN f[source_path].size
                       ELSE 0
    IN  IF ~Exists(f, source_path)
        THEN [fs |-> IF dry \/ ~backup THEN f
                     ELSE CreateBackupInfo(f, source_path, dest_path, t,
                                           ds).fs,
              how |-> "notfound",
              result |-> OperationResult(FALSE, "move", source_path, dest_path,
                                         "Source file not found", NoBytes)]
        ELSE IF dry
        THEN [fs |-> f, how |-> "dry",
              result |-> OperationResult(TRUE, "move", source_path, dest_path,
                                         NoError, file_size)]
        ELSE MoveReal(source_path, dest_path, file_size,
                      MakeParent(IF backup
                                 THEN CreateBackupInfo(f, source_path,
                                                       dest_path, t, ds)
                                 ELSE Ok(f),
                                 dest_path),
                      ds, dd)

\* _move_file that writes the backup record after the move instead of
\* before it
MoveFile_RecordingAfterMove(f, suggestion, dry, backup, t, ds, dd) ==
    LET source_path == Join(BasePath, suggestion.source_path)
        dest_path   == Join(BasePath, suggestion.destination_path)
        file_size   == IF IsFile(f, source_path) THEN f[source_path].size
                       ELSE 0
    IN  IF ~Exists(f, source_path)
        THEN [fs |-> f, how |-> "notfound",
              result |-> OperationResult(FALSE, "move", source_path, dest_path,
                                         "Source file not found", NoBytes)]
        ELSE IF dry
        THEN [fs |-> f, how |-> "dry",
              result |-> OperationResult(TRUE, "move", source_path, dest_path,
                                         NoError, file_size)]
        ELSE LET r == MoveReal(source_path, dest_path, file_size,
                               MakeParent(Ok(f), dest_path), ds, dd)
             IN  IF backup
                 THEN [r EXCEPT !.fs = CreateBackupInfo(@, source_path,
                                                        dest_path, t, ds).fs]
                 ELSE r

\* _move_file(suggestion) at the instant t: the filesystem afterwards, the
\* result, and how the destination was resolved
MoveFile(f, suggestion, dry, backup, t, ds, dd) ==
    LET source_path == Join(BasePath, suggestion.source_path)
        dest_path   == Join(BasePath, suggestion.destination_path)
        file_size   == IF IsFile(f, source_path) THEN f[source_path].size
                       ELSE 0
    IN  IF ~Exists(f, source_path)
        THEN [fs |-> f, how |-> "notfound",
              result |-> OperationResult(FALSE, "move", source_path, dest_path,
                                         "Source file not found", NoBytes)]
        ELSE IF dry
        THEN [fs |-> f, how |-> "dry",
              result |-> OperationResult(TRUE, "move", source_path, dest_path,
                                         NoError, file_size)]
        ELSE MoveReal(source_path, dest_path, file_size,
                      MakeParent(IF backup
                                 THEN CreateBackupInfo(f, source_path,
                                                       dest_path, t, ds)
                                 ELSE Ok(f),
                                 dest_path),
                      ds, dd)

\* backup_dir.glob("backup_*.json")
BackupFiles(f) ==
    {p \in DOMAIN f : /\ Parent(p) = BackupDir
                      /\ StartsWith(Name(p), BackupPrefix)
                      /\ EndsWith(Name(p), JsonSuffix)
                      /\ Len(Name(p)) >= Len(BackupPrefix) + Len(JsonSuffix)}

\* sorted(..., reverse=True)[0]
LatestBackup(f) ==
    CHOOSE p \in BackupFiles(f) :
        \A q \in BackupFiles(f) : q = p \/ StrLess(Name(q), Name(p))

\* undo_last_operation that deletes the record before it looks at the
\* destination
UndoLastOperation_DroppingRecord(f) ==
    IF ~Exists(f, BackupDir) THEN [fs |-> f, ret |-> FALSE]
    ELSE IF BackupFiles(f) = {} THEN [fs |-> f, ret |-> FALSE]
    ELSE LET latest_backup == LatestBackup(f)
             backup_info   == f[latest_backup].data
             readable      == /\ f[latest_backup].kind = "file"
                              /\ "operation" \in DOMAIN backup_info
                              /\ "source" \in DOMAIN backup_info
                              /\ "destination" \in DOMAIN backup_info
             removed == Unlink(f, latest_backup)
             moved   == ShutilMove(removed.fs, backup_info.destination,
                                   backup_info.source)
         IN  IF ~readable THEN [fs |-> f, ret |-> FALSE]
             ELSE IF backup_info.operation = "move"
                     /\ Exists(removed.fs, backup_info.destination)
             THEN IF ~moved.ok THEN [fs |-> removed.fs, ret |-> FALSE]
                  ELSE [fs |-> moved.fs, ret |-> TRUE]
             ELSE [fs |-> removed.fs, ret |-> FALSE]

\* undo_last_operation(): the filesystem afterwards and the value returned
UndoLastOperation(f) ==
    IF ~Exists(f, BackupDir) THEN [fs |-> f, ret |-> FALSE]
    ELSE IF BackupFiles(f) = {} THEN [fs |-> f, ret |-> FALSE]
    ELSE LET latest_backup == LatestBackup(f)
             backup_info   == f[latest_backup].data
             readable      == /\ f[latest_backup].kind = "file"
                              /\ "operation" \in DOMAIN backup_info
                              /\ "source" \in DOMAIN backup_info
                              /\ "destination" \in DOMAIN backup_info
             moved   == ShutilMove(f, backup_info.destination,
                                   backup_info.source)
             removed == Unlink(moved.fs, latest_backup)
         IN  IF ~readable THEN [fs |-> f, ret |-> FALSE]
             ELSE IF backup_info.operation = "move"
                     /\ Exists(f, backup_info.destination)
             THEN IF ~moved.ok THEN [fs |-> f, ret |-> FALSE]
                  ELSE IF ~removed.ok THEN [fs |-> moved.fs, ret |-> FALSE]
                  ELSE [fs |-> removed.fs, ret |-> TRUE]
             ELSE [fs |-> f, ret |-> FALSE]

\* ------------------------------------------------------------------------
\* AIOrganizer.validate_suggestions
\* ------------------------------------------------------------------------
\* one entry of the errors list of validate_suggestions: the message and the
\* path its f-string formats
ValidationError(message, path) == [message |-> message, path |-> path]

\* the two outcomes of the loop body that append no error
Valid == ValidationError("valid", <<>>)

Skipped == ValidationError("skipped", <<>>)

\* parent_will_be_created of validate_suggestions: some create_directory
\* suggestion of the plan has a destination whose string is a prefix of the
\* string of the parent of dest_path
ParentWillBeCreated(p, dest_path) ==
    \E k \in 1..Len(p) :
        /\ p[k].operation = "create_directory"
        /\ StartsWith(Parent(dest_path), Join(BasePath, p[k].destination_path))

\* what the loop body of validate_suggestions does with one suggestion of
\* plan p: Valid, an error, or Skipped when no branch is taken
Verdict(f, p, suggestion) ==
    LET source_path == Join(BasePath, suggestion.source_path)
        dest_path   == Join(BasePath, suggestion.destination_path)
    IN  IF suggestion.operation = "create_directory"
        THEN IF Exists(f, dest_path)
             THEN ValidationError("Directory already exists",
                                  suggestion.destination_path)
             ELSE Valid
        ELSE IF suggestion.operation = "move"
        THEN IF ~Exists(f, source_path)
             THEN ValidationError("Source file not found",
                                  suggestion.source_path)
             ELSE IF ~Exists(f, Parent(dest_path))
                     /\ ~ParentWillBeCreated(p, dest_path)
             THEN ValidationError("Destination directory doesn't exist",
                                  Parent(dest_path))
             ELSE Valid
        ELSE Skipped

\* the two lists with the outcome v of one suggestion put before those of
\* the suggestions after it
Listed(suggestion, v, rest) ==
    IF v = Valid THEN [rest EXCEPT !.valid = <<suggestion>> \o @]
    ELSE IF v = Skipped THEN rest
    ELSE [rest EXCEPT !.errors = <<v>> \o @]

RECURSIVE ValidateFrom(_, _, _)
\* the lists valid_suggestions and errors after the iterations k..Len(p)
ValidateFrom(f, p, k) ==
    IF k > Len(p) THEN [valid |-> <<>>, errors |-> <<>>]
    ELSE Listed(p[k], Verdict(f, p, p[k]), ValidateFrom(f, p, k + 1))

\* validate_suggestions that creates the missing parent of a destination
ValidateSuggestions_CreatingParents(f, p) ==
    LET r == ValidateFrom(f, p, 1)
        missing == {Parent(Join(BasePath, p[k].destination_path)) :
                       k \in {j \in 1..Len(p) : p[j].operation = "move"}}
        todo == {q \in missing : ~Exists(f, q)}
    IN  [fs |-> IF todo = {} THEN f
                ELSE Mkdir(f, CHOOSE q \in todo : TRUE, TRUE).fs,
         valid |-> r.valid, errors |-> r.errors]

\* validate_suggestions(plan, base_path): the filesystem afterwards and the
\* two lists returned
ValidateSuggestions(f, p) ==
    LET r == ValidateFrom(f, p, 1)
    IN  [fs |-> f, valid |-> r.valid, errors |-> r.errors]

\* ------------------------------------------------------------------------
\* TreeGenerator
\* ------------------------------------------------------------------------
\* a directory entry that is neither a regular file nor a directory (a FIFO)
OtherEntry == [kind |-> "other", size |-> 0, mtime |-> 0, data |-> NoData]

\* a directory whose entries the process may not list
LockedDir ==
    [kind |-> "dir", size |-> 0, mtime |-> 0, data |-> [locked |-> 0]]

\* Path.iterdir() succeeds on p
Listable(f, p) == IsDir(f, p) /\ (p = <<>> \/ f[p].data = NoData)

\* the entries of directory p
Entries(f, p) == {q \in DOMAIN f : q # p /\ Parent(q) = p}

RECURSIVE AscendingSeq(_)
\* the paths of S by ascending name
AscendingSeq(S) ==
    IF S = {} THEN <<>>
    ELSE LET m == CHOOSE x \in S :
                      \A y \in S : y = x \/ StrLess(Name(x), Name(y))
         IN  <<m>> \o AscendingSeq(S \ {m})

Reverse(seq) == [k \in 1..Len(seq) |-> seq[Len(seq) + 1 - k]]

\* Path.iterdir() as a list: the entries of p in the order the filesystem
\* yields them, which is by ascending or by descending name
IterDir(f, p, order) ==
    IF order = "ascending" THEN AscendingSeq(Entries(f, p))
    ELSE Reverse(AscendingSeq(Entries(f, p)))

\* Path.__lt__ on two entries of one directory
PathLess(p, q) == StrLess(Name(p), Name(q))

InsertPath(seq, x) ==
    LET I == {k \in 1..Len(seq) : PathLess(x, seq[k])}
        k == IF I = {} THEN Len(seq) + 1
             ELSE CHOOSE j \in I : \A l \in I : j <= l
    IN  SubSeq(seq, 1, k - 1) \o <<x>> \o SubSeq(seq, k, Len(seq))

\* the listing left in the order the filesystem gave it
SortedPaths_AsListed(seq) == seq

RECURSIVE SortedPaths(_)
\* sorted(path.iterdir())
SortedPaths(seq) ==
    IF seq = <<>> THEN <<>>
    ELSE InsertPath(SortedPaths(SubSeq(seq, 1, Len(seq) - 1)), seq[Len(seq)])

\* TreeGenerator.VIDEO_EXTENSIONS, SUBTITLE_EXTENSIONS, EXTRA_EXTENSIONS
VideoExtensions ==
    { <<".", "m", "k", "v">>, <<".", "m", "p", "4">>, <<".", "a", "v", "i">>,
      <<".", "m", "o", "v">>, <<".", "w", "m", "v">>, <<".", "f", "l", "v">>,
      <<".", "w", "e", "b", "m">>, <<".", "m", "4", "v">> }

SubtitleExtensions ==
    { <<".", "s", "r", "t">>, <<".", "s", "u", "b">>, <<".", "i", "d", "x">>,
      <<".", "a", "s", "s">>, <<".", "s", "s", "a">>, <<".", "v", "t", "t">> }

ExtraExtensions ==
    { <<".", "n", "f", "o">>, <<".", "j", "p", "g">>,
      <<".", "j", "p", "e", "g">>, <<".", "p", "n", "g">>,
      <<".", "g", "i", "f">>, <<".", "t", "x", "t">>, <<".", "m", "d">> }

\* str.lower() on one character
LowerChar(c) == IF c = "M" THEN "m" ELSE c

\* str.lower()
Lower(str) == [k \in 1..Len(str) |-> LowerChar(str[k])]

\* DirectoryNode.size, .children and .media_file while they are None
NoSize == -1

NoChildren == [none |-> 0]

NoMediaFile == [none |-> 0]

\* _create_media_file(path)
CreateMediaFile(f, path) ==
    LET extension == Lower(Suffix(path))
    IN  [name |-> Name(path), path |-> path, size |-> f[path].size,
         extension |-> extension,
         is_video |-> extension \in VideoExtensions,
         is_subtitle |-> extension \in SubtitleExtensions,
         is_extra |-> extension \in ExtraExtensions]

\* DirectoryNode(name, path, type) with the defaults of its other fields
DirectoryNode(name, path, type) ==
    [name |-> name, path |-> path, type |-> type, size |-> NoSize,
     children |-> NoChildren, media_file |-> NoMediaFile]

\* what a call of _build_tree_node yields: a node, None, or an exception
Built(node) == [status |-> "node", node |-> node, error |-> ""]

BuiltNone == [status |-> "none", node |-> NoChildren, error |-> ""]

Raised(error) == [status |-> "raise", node |-> NoChildren, error |-> error]

\* the value of node.children for the list of nodes seq
Children(seq) == [list |-> seq]

\* a depth test that never prunes
TooDeep_Never(current_depth, max_depth) == FALSE

\* the test of _build_tree_node on current_depth
TooDeep(current_depth, max_depth) == current_depth > max_depth

\* a hidden test that never prunes
HiddenSkipped_Never(path, include_hidden) == FALSE

\* the test of _build_tree_node on hidden names
HiddenSkipped(path, include_hidden) ==
    ~include_hidden /\ StartsWith(Name(path), <<".">>)

\* the file branch of _build_tree_node
FileNode(f, path, node) ==
    Built([node EXCEPT !.size = f[path].size,
                       !.media_file = CreateMediaFile(f, path)])

\* the loop of _build_tree_node over the results of its recursive calls:
\* the first exception leaves the loop and the call, a None is skipped, and
\* the nodes become node.children
DirectoryWith(node, built) ==
    LET failed == {k \in 1..Len(built) : built[k].status = "raise"}
        kept   == SelectSeq(built, LAMBDA b : b.status = "node")
    IN  IF failed # {}
        THEN built[CHOOSE k \in failed : \A j \in failed : k <= j]
        ELSE Built([node EXCEPT !.children =
                       Children([k \in 1..Len(kept) |-> kept[k].node])])

RECURSIVE BuildTreeNode(_, _, _, _, _, _)
\* the recursive calls of _build_tree_node, one for each listed path
BuildEach(f, listed, current_depth, max_depth, include_hidden, order) ==
    [k \in 1..Len(listed) |->
        BuildTreeNode(f, listed[k], current_depth, max_depth, include_hidden,
                      order)]

\* _build_tree_node(path, current_depth, max_depth, include_hidden), the
\* filesystem listing its directories in the given order
BuildTreeNode(f, path, current_depth, max_depth, include_hidden, order) ==
    IF TooDeep(current_depth, max_depth) THEN BuiltNone
    ELSE IF HiddenSkipped(path, include_hidden) THEN BuiltNone
    ELSE IF IsFile(f, path)
    THEN FileNode(f, path, DirectoryNode(Name(path), path, "file"))
    ELSE IF ~IsDir(f, path) THEN Raised("NotADirectoryError")
    ELSE IF ~Listable(f, path) THEN BuiltNone
    ELSE DirectoryWith(DirectoryNode(Name(path), path, "directory"),
                       BuildEach(f, SortedPaths(IterDir(f, path, order)),
                                 current_depth + 1, max_depth, include_hidden,
                                 order))

\* generate_tree(max_depth, include_hidden) of TreeGenerator(root_path)
GenerateTree(f, root_path, max_depth, include_hidden, order) ==
    BuildTreeNode(f, root_path, 0, max_depth, include_hidden, order)

\* f"{size_mb:.1f}" for size_mb = size / (1024 * 1024): the tenths of a
\* megabyte nearest to size, as text
OneDecimal(size) ==
    LET tenths == (size * 20 + 1048576) \div 2097152
    IN  Decimal(tenths \div 10) \o <<".">> \o Decimal(tenths % 10)

\* the connectors and indents of tree_to_text (written here in ASCII): the
\* connector of a last child and of another child, the indent below a last
\* child and below another child
LastConnector == "+-- "

MidConnector == "|-- "

LastIndent == "    "

MidIndent == "|   "

RECURSIVE TreeToText(_, _, _)
\* tree_to_text(node, prefix, is_last), as the sequence of its pieces
TreeToText(node, prefix, is_last) ==
    LET line == prefix \o <<IF is_last THEN LastConnector ELSE MidConnector>>
                    \o node.name
                    \o (IF node.type = "file" /\ node.size # NoSize
                           /\ node.size # 0
                        THEN <<" (">> \o OneDecimal(node.size) \o <<" MB)">>
                        ELSE <<>>)
                    \o <<"\n">>
        next_prefix == prefix \o <<IF is_last THEN LastIndent ELSE MidIndent>>
        kids == IF node.children = NoChildren THEN <<>> ELSE node.children.list
        Below[k \in 0..Len(kids)] ==
            IF k = 0 THEN <<>>
            ELSE Below[k - 1] \o TreeToText(kids[k], next_prefix, k = Len(kids))
    IN  line \o Below[Len(kids)]

\* the arguments of one scan: TreeGenerator(root_path).generate_tree(
\* max_depth, include_hidden), and the order in which directories list
ScanCall(root_path, max_depth, include_hidden, order) ==
    [root_path |-> root_path, max_depth |-> max_depth,
     include_hidden |-> include_hidden, order |-> order]

\* tree_to_text(tree) for what generate_tree returned
TextOf(built) ==
    IF built.status = "node" THEN TreeToText(built.node, <<>>, TRUE) ELSE <<>>

\* ------------------------------------------------------------------------
\* FileOperations.cleanup_empty_directories
\* ------------------------------------------------------------------------
\* the inner try of cleanup_empty_directories that removes the directory
\* but does not count it
RemoveIfEmpty_NotCounting(count, r, item, dry) ==
    IF ~Listable(r.fs, item) \/ Entries(r.fs, item) # {}
    THEN [fs |-> r.fs, count |-> count + r.count]
    ELSE [fs |-> IF dry THEN r.fs ELSE Remove(r.fs, {item}),
          count |-> count + r.count]

\* the rest of one iteration of cleanup_empty_directories on item, count
\* being removed_count before it and r the filesystem and the count the
\* recursive call returned: any(item.iterdir()) raises an OSError on a
\* directory that cannot be listed, and an empty directory is removed
\* (unless dry) and counted
RemoveIfEmpty(count, r, item, dry) ==
    IF ~Listable(r.fs, item) \/ Entries(r.fs, item) # {}
    THEN [fs |-> r.fs, count |-> count + r.count]
    ELSE [fs |-> IF dry THEN r.fs ELSE Remove(r.fs, {item}),
          count |-> count + r.count + 1]

RECURSIVE CleanupEmptyDirectories(_, _, _, _)
\* one iteration of the loop of cleanup_empty_directories, acc being the
\* filesystem and removed_count before it
CleanupItem(acc, item, dry, order) ==
    IF ~IsDir(acc.fs, item) THEN acc
    ELSE RemoveIfEmpty(acc.count,
                       CleanupEmptyDirectories(acc.fs, item, dry, order),
                       item, dry)

\* the loop of cleanup_empty_directories over the items path.iterdir()
\* yielded
CleanupLoop(f, items, dry, order) ==
    LET After[k \in 0..Len(items)] ==
            IF k = 0 THEN [fs |-> f, count |-> 0]
            ELSE CleanupItem(After[k - 1], items[k], dry, order)
    IN  After[Len(items)]

\* cleanup_empty_directories(path), the filesystem listing its directories
\* in the given order: the filesystem afterwards and the count returned;
\* a path that cannot be listed raises PermissionError, which is caught
CleanupEmptyDirectories(f, path, dry, order) ==
    IF ~Listable(f, path) THEN [fs |-> f, count |-> 0]
    ELSE CleanupLoop(f, IterDir(f, path, order), dry, order)

\* the arguments of one cleanup: FileOperations(base_path, dry)
\* .cleanup_empty_directories(path), and the order in which directories list
CleanupCall(path, dry, order) == [path |-> path, dry |-> dry, order |-> order]

\* ------------------------------------------------------------------------
\* The inputs of the model: relative paths, suggestions, plans, and the
\* directory tree the program is started on
\* ------------------------------------------------------------------------
\* "a.m", "b.m", "d", "e", "d/a.m", "e/b.m", "a.m/x", ".organize_reports"
Path_a == <<"a", ".", "m">>

Path_b == <<"b", ".", "m">>

Path_d == <<"d">>

Path_e == <<"e">>

Path_d_a == <<"d", "/", "a", ".", "m">>

Path_e_b == <<"e", "/", "b", ".", "m">>

Path_a_x == <<"a", ".", "m", "/", "x">>

Path_reports == Name(ReportsDir)

Path_e_f == <<"e", "/", "f">>

Path_e_a == <<"e", "/", "a", ".", "m">>

\* OrganizationSuggestion (confidence and reason play no part in execution)
Path_ex_a == <<"e", "x", "/", "a", ".", "m">>

\* the entries of the scanned library: "s", "s/b", "s/b/c.Mkv", "s/p",
\* "z.m", ".h", ".h/x.m", "l", "l/y.m"
Path_s == <<"s">>

Path_s_b == <<"s", "/", "b">>

Path_s_b_c == <<"s", "/", "b", "/", "c", ".", "M", "k", "v">>

Path_s_p == <<"s", "/", "p">>

Path_z == <<"z", ".", "m">>

Path_h == <<".", "h">>

Path_h_x == <<".", "h", "/", "x", ".", "m">>

Path_l == <<"l">>

Path_l_y == <<"l", "/", "y", ".", "m">>

Suggestion(operation, source_path, destination_path) ==
    [operation |-> operation, source_path |-> source_path,
     destination_path |-> destination_path]

\* suggestions of moves that meet a conflict or go to the place another
\* move has left
MoveSuggestions ==
    { Suggestion("move", Path_a, Path_d_a),
      Suggestion("move", Path_b, Path_d_a),
      Suggestion("move", Path_b, Path_a) }

\* suggestions that fail, and a move to the name of the reports directory
FailingSuggestions ==
    { Suggestion("create_directory", <<>>, Path_a_x),
      Suggestion("move", Path_b, Path_a_x),
      Suggestion("move", Path_e_b, Path_d_a),
      Suggestion("delete", Path_a, Path_d),
      Suggestion("move", Path_a, Path_reports) }

\* suggestions of every kind, with destinations in both orders
OrderSuggestions ==
    { Suggestion("create_directory", <<>>, Path_e),
      Suggestion("create_directory", <<>>, Path_d),
      Suggestion("move", Path_a, Path_e_b),
      Suggestion("move", Path_b, Path_d_a) }

\* suggestions of a move that meets a conflict, of a move of a file onto
\* itself and of a move that fails after its backup record is written
UndoSuggestions ==
    { Suggestion("move", Path_b, Path_d_a),
      Suggestion("move", Path_a, Path_a),
      Suggestion("move", Path_a, Path_a_x) }

\* create_directory suggestions: of a directory that exists, of a new one
\* inside a new one, of one below a regular file and of the path of a
\* regular file
CreateSuggestions ==
    { Suggestion("create_directory", <<>>, Path_d),
      Suggestion("create_directory", <<>>, Path_a),
      Suggestion("create_directory", <<>>, Path_e_f),
      Suggestion("create_directory", <<>>, Path_a_x) }

\* suggestions of a plan that creates a directory and moves a file into
\* it, and of a directory that cannot be created
FreshSuggestions ==
    { Suggestion("create_directory", <<>>, Path_e),
      Suggestion("create_directory", <<>>, Path_a_x),
      Suggestion("move", Path_a, Path_e_a) }

\* suggestions whose destination is the absolute path "/o" or "/o/a.m",
\* outside the base path, and one whose destination is inside it
EscapeSuggestions ==
    { Suggestion("create_directory", <<>>, <<"/", "o">>),
      Suggestion("move", Path_a, <<"/", "o", "/", "a", ".", "m">>),
      Suggestion("create_directory", <<>>, Path_e) }

\* suggestions the engine rejects, of an operation it does not know and of
\* a move whose source is missing, and a move it performs
RejectedSuggestions ==
    { Suggestion("delete", Path_a, Path_d),
      Suggestion("move", Path_e_b, Path_d_a),
      Suggestion("move", Path_b, Path_e_b) }

\* OrganizationPlan.suggestions: the plans of n suggestions out of U
PlansOver(U, n) == [1..n -> U]

\* the (dry_run, backup_enabled) pairs a FileOperations is built with
AllModes == BOOLEAN \X BOOLEAN

\* sizes and modification times of the media files of the model
Sizes == {1, 2, 3}

Mtimes == {1, 2, 3}

\* the st_size a directory can have: smaller or larger than any file
DirSizes == {0, 4}

\* a library: a.m of the given size and age, b.m, and d/a.m of the same
\* size and age as b.m
Tree(sz, mt) ==
    (BasePath :> DirEntry)
    @@ (Join(BasePath, Path_a) :> MediaFile(1, sz, mt))
    @@ (Join(BasePath, Path_b) :> MediaFile(2, 2, 2))
    @@ (Join(BasePath, Path_d) :> DirEntry)
    @@ (Join(BasePath, Path_d_a) :> MediaFile(3, 2, 2))

\* the suggestions handed to validate_suggestions: a directory that exists
\* or not, moves into it, into a directory whose name only begins like its
\* name, from a missing source, and a rename
ValidateSuggestions_Inputs ==
    {Suggestion("create_directory", <<>>, Path_e),
     Suggestion("move", Path_a, Path_e_a),
     Suggestion("move", Path_a, Path_ex_a),
     Suggestion("move", Path_e_b, Path_d_a),
     Suggestion("rename", Path_a, Path_b)}

ValidatedPlans == UNION {PlansOver(ValidateSuggestions_Inputs, n) : n \in 0..MaxOps}

\* the library with the directory e as well
TreeWith_e == Tree(2, 2) @@ (Join(BasePath, Path_e) :> DirEntry)

\* a library three levels deep with a hidden directory, an empty file and
\* a file of one and a half megabytes
ScannedTree ==
    (BasePath :> DirEntry)
    @@ (Join(BasePath, Path_s) :> DirEntry)
    @@ (Join(BasePath, Path_s_b) :> DirEntry)
    @@ (Join(BasePath, Path_s_b_c) :> MediaFile(1, 1572864, 2))
    @@ (Join(BasePath, Path_z) :> MediaFile(2, 0, 2))
    @@ (Join(BasePath, Path_h) :> DirEntry)
    @@ (Join(BasePath, Path_h_x) :> MediaFile(3, 2, 2))

\* the same with a FIFO in s, and with a directory that cannot be listed
ScannedTrees ==
    {ScannedTree,
     ScannedTree @@ (Join(BasePath, Path_s_p) :> OtherEntry),
     ScannedTree @@ (Join(BasePath, Path_l) :> LockedDir)
                 @@ (Join(BasePath, Path_l_y) :> MediaFile(4, 2, 2))}

\* the scans made of it from one directory to one depth: with and without
\* hidden entries, the filesystem listing in either order
ScanCalls(root, max_depth) ==
    {ScanCall(Join(BasePath, root), max_depth, include_hidden, order) :
        include_hidden \in BOOLEAN, order \in {"ascending", "descending"}}

\* libraries with empty directories: s/b/e inside s/b inside s, the hidden
\* directory .h, and the directory l that holds a file; the same with a
\* file in s; and with an empty directory that cannot be listed for l
CleanedTrees ==
    LET tree == (BasePath :> DirEntry)
                @@ (Join(BasePath, Path_s) :> DirEntry)
                @@ (Join(BasePath, Path_s_b) :> DirEntry)
                @@ (Join(Join(BasePath, Path_s_b), Path_e) :> DirEntry)
                @@ (Join(BasePath, Path_h) :> DirEntry)
                @@ (Join(BasePath, Path_l) :> DirEntry)
                @@ (Join(BasePath, Path_l_y) :> MediaFile(1, 2, 2))
                @@ (Join(BasePath, Path_z) :> MediaFile(2, 0, 2))
    IN  {tree,
         tree @@ (Join(BasePath, Path_s_p) :> MediaFile(3, 2, 2)),
         Put(Remove(tree, {Join(BasePath, Path_l_y)}),
             Join(BasePath, Path_l), LockedDir)}

InitialTrees ==
    {Tree(sz, 2) : sz \in Sizes \ {2}} \cup {Tree(2, mt) : mt \in Mtimes \ {2}}

\* ------------------------------------------------------------------------
\* State
\* ------------------------------------------------------------------------
VARIABLES
    fs,                 \* the filesystem
    now,                \* datetime.now(), in ticks
    pc,                 \* "idle", or "running" inside execute_plan
    dry_run,            \* self.dry_run of the running FileOperations
    backup_enabled,     \* self.backup_enabled of the running FileOperations
    plan,               \* plan.suggestions of the current or last run
    sorted_suggestions, \* the local sorted_suggestions of execute_plan
    op_index,           \* the loop index i of execute_plan
    report,             \* the ExecutionReport of the current or last run
    outcome,            \* how the last execute_plan ended
    undo_result,        \* what the last undo_last_operation returned
    runs,               \* execute_plan calls so far
    ops,                \* suggestions handed to execute_plan so far
    validation,         \* what the last validate_suggestions returned
    scan,               \* what the last generate_tree returned
    cleanup,            \* what the last cleanup_empty_directories returned
    h,                  \* history of the last step, for stating properties
    scenario            \* the calls this behaviour draws from

vars == <<fs, now, pc, dry_run, backup_enabled, plan, sorted_suggestions,
          op_index, report, outcome, undo_result, runs, ops, validation,
          scan, cleanup, h, scenario>>

\* validation and scan while no call has returned
NoValidation ==
    [status |-> "none", plan |-> <<>>, valid |-> <<>>, errors |-> <<>>]

NoScan ==
    [status |-> "none", root_path |-> <<>>, max_depth |-> 0,
     include_hidden |-> FALSE, order |-> "", built |-> BuiltNone,
     text |-> <<>>]

\* cleanup while no call has returned
NoCleanup ==
    [status |-> "none", path |-> <<>>, dry |-> FALSE, count |-> 0,
     pre |-> <<>>]

\* h.dry0 while the run under way does not follow a dry run of its plan
NoDryRun == [used |-> FALSE, success |-> <<>>, fs0 |-> <<>>]

\* ExecutionReport.end_time while it is None
NoTime == -1

NoSuggestion == Suggestion("none", <<>>, <<>>)

ExecutionReport(start_time, total_operations, dry) ==
    [start_time |-> start_time, end_time |-> NoTime,
     total_operations |-> total_operations,
     successful_operations |-> 0, failed_operations |-> 0,
     results |-> <<>>, total_bytes_moved |-> 0, dry_run |-> dry]

\* the plan validated and the scan made where a behaviour is about runs
DefaultValidated == {<<Suggestion("create_directory", <<>>, Path_d)>>}

DefaultScans == {ScanCall(BasePath, 1, FALSE, "ascending")}

\* the calls a behaviour draws from: the suggestions of its plans, the modes
\* of its runs, how many suggestions it may execute beyond MaxOps, the
\* plans it validates, the scans and the cleanups it makes, and whether
\* the clock advances at any moment or between the calls only
Scenario(U, M, extra) ==
    [suggestions |-> U, modes |-> M, extra |-> extra,
     validated |-> DefaultValidated, scans |-> DefaultScans,
     cleanups |-> {CleanupCall(BasePath, TRUE, "ascending")},
     clock |-> "free"]


\* the state after construction, on one of the libraries of trees, with the
\* calls drawn from the scenario sc
InitWith(trees, sc) ==
    /\ fs \in trees
    /\ scenario = sc
    /\ now = 0
    /\ pc = "idle"
    /\ dry_run = TRUE
    /\ backup_enabled = TRUE
    /\ plan = <<>>
    /\ sorted_suggestions = <<>>
    /\ op_index = 1
    /\ report = ExecutionReport(0, 0, TRUE)
    /\ outcome = "none"
    /\ undo_result = "none"
    /\ runs = 0
    /\ ops = 0
    /\ validation = NoValidation
    /\ scan = NoScan
    /\ cleanup = NoCleanup
    /\ h = [step |-> "init", prev |-> "init", pre |-> fs, fs0 |-> fs,
            how |-> "", sugg |-> NoSuggestion, returned |-> 0,
            validation0 |-> NoValidation, scan0 |-> NoScan,
            cleanup0 |-> NoCleanup, at |-> 0, dry0 |-> NoDryRun]

\* the same, with the plans drawn from the suggestions U and the modes from M
InitOn(trees, U, M) == InitWith(trees, Scenario(U, M, 0))

Init == InitOn(InitialTrees, MoveSuggestions, AllModes \ {<<TRUE, FALSE>>})

\* ------------------------------------------------------------------------
\* Actions
\* ------------------------------------------------------------------------
\* FileOperations(base_path, dry, backup).execute_plan(p), up to the loop;
\* the history keeps the outcomes of the run before when it was a dry run of
\* the same plan that has just returned
BeginRun(p, dry, backup) ==
    /\ pc = "idle"
    /\ runs < MaxRuns
    /\ pc' = "running"
    /\ dry_run' = dry
    /\ backup_enabled' = backup
    /\ plan' = p
    /\ sorted_suggestions' = SortedSuggestions(p)
    /\ op_index' = 1
    /\ report' = ExecutionReport(now, Len(p), dry)
    /\ outcome' = "none"
    /\ runs' = runs + 1
    /\ ops' = ops + Len(p)
    /\ validation' = NoValidation
    /\ scan' = NoScan
    /\ cleanup' = NoCleanup
    /\ h' = [h EXCEPT !.step = "begin", !.prev = h.step, !.pre = fs,
                      !.fs0 = fs, !.how = "", !.sugg = NoSuggestion,
                      !.validation0 = NoValidation, !.scan0 = NoScan,
                      !.cleanup0 = NoCleanup, !.at = 0,
                      !.dry0 = IF /\ ~dry /\ dry_run /\ plan = p
                                  /\ h.step = "finish"
                                  /\ outcome = "returned"
                               THEN [used |-> TRUE,
                                     success |->
                                         [k \in 1..Len(report.results) |->
                                             report.results[k].success],
                                     fs0 |-> h.fs0]
                               ELSE NoDryRun]
    /\ UNCHANGED <<fs, now, undo_result, scenario>>

\* the dispatch of execute_plan that handles every suggestion that is not a
\* create_directory as a move
Dispatch_DefaultingToMove(f, suggestion, dry, backup, t, ds, dd) ==
    IF suggestion.operation = "create_directory"
    THEN LET r == CreateDirectory(f, suggestion, dry)
         IN  [fs |-> r.fs, how |-> "create", result |-> r.result]
    ELSE MoveFile(f, suggestion, dry, backup, t, ds, dd)

\* what one iteration of the loop of execute_plan does with suggestion
Dispatch(f, suggestion, dry, backup, t, ds, dd) ==
    IF suggestion.operation = "create_directory"
    THEN LET r == CreateDirectory(f, suggestion, dry)
         IN  [fs |-> r.fs, how |-> "create", result |-> r.result]
    ELSE IF suggestion.operation = "move"
    THEN MoveFile(f, suggestion, dry, backup, t, ds, dd)
    ELSE [fs |-> f, how |-> "unknown",
          result |-> OperationResult(FALSE, suggestion.operation,
                                     suggestion.source_path,
                                     suggestion.destination_path,
                                     "Unknown operation", NoBytes)]

\* the bookkeeping of one iteration with the two counters swapped
Account_CountingSuccessAsFailure(rep, result) ==
    [rep EXCEPT
       !.results = Append(@, result),
       !.failed_operations = IF result.success THEN @ + 1 ELSE @,
       !.total_bytes_moved =
           IF result.success /\ result.bytes_moved # NoBytes
              /\ result.bytes_moved # 0
           THEN @ + result.bytes_moved ELSE @,
       !.successful_operations = IF result.success THEN @ ELSE @ + 1]

\* the bookkeeping of one iteration without the count of the failures
Account_DroppingFailures(rep, result) ==
    [rep EXCEPT
       !.results = Append(@, result),
       !.successful_operations = IF result.success THEN @ + 1 ELSE @,
       !.total_bytes_moved =
           IF result.success /\ result.bytes_moved # NoBytes
              /\ result.bytes_moved # 0
           THEN @ + result.bytes_moved ELSE @]

\* the bookkeeping of one iteration: append the result, count it
Account(rep, result) ==
    [rep EXCEPT
       !.results = Append(@, result),
       !.successful_operations = IF result.success THEN @ + 1 ELSE @,
       !.total_bytes_moved =
           IF result.success /\ result.bytes_moved # NoBytes
              /\ result.bytes_moved # 0
           THEN @ + result.bytes_moved ELSE @,
       !.failed_operations = IF result.success THEN @ ELSE @ + 1]

\* one iteration of the loop of execute_plan
ExecuteOperation(ds, dd) ==
    /\ pc = "running"
    /\ op_index <= Len(sorted_suggestions)
    /\ LET suggestion == sorted_suggestions[op_index]
           r == Dispatch(fs, suggestion, dry_run, backup_enabled, now, ds, dd)
       IN  /\ fs' = r.fs
           /\ report' = Account(report, r.result)
           /\ h' = [h EXCEPT !.step = "op", !.prev = h.step, !.pre = fs,
                             !.how = r.how, !.sugg = suggestion, !.at = now]
    /\ op_index' = op_index + 1
    /\ UNCHANGED <<now, pc, dry_run, backup_enabled, plan, sorted_suggestions,
                   outcome, undo_result, runs, ops, validation, scan,
                   cleanup, scenario>>

\* the end of execute_plan: end_time, _save_execution_report, return
FinishRun ==
    /\ pc = "running"
    /\ op_index > Len(sorted_suggestions)
    /\ LET final == [report EXCEPT !.end_time = now]
           saved == SaveExecutionReport(fs, final)
       IN  /\ report' = final
           /\ fs' = saved.fs
           /\ outcome' = IF saved.ok THEN "returned" ELSE "raised"
           /\ h' = [h EXCEPT !.step = "finish", !.prev = h.step, !.pre = fs,
                             !.returned = IF saved.ok THEN @ + 1 ELSE @,
                             !.at = 0]
    /\ pc' = "idle"
    /\ UNCHANGED <<now, dry_run, backup_enabled, plan, sorted_suggestions,
                   op_index, undo_result, runs, ops, validation, scan,
                   cleanup, scenario>>

\* FileOperations(base_path).undo_last_operation()
Undo ==
    /\ pc = "idle"
    /\ LET r == UndoLastOperation(fs)
       IN  /\ fs' = r.fs
           /\ undo_result' = IF r.ret THEN "True" ELSE "False"
    /\ validation' = NoValidation
    /\ scan' = NoScan
    /\ cleanup' = NoCleanup
    /\ h' = [h EXCEPT !.step = "undo", !.prev = h.step, !.pre = fs,
                      !.validation0 = NoValidation, !.scan0 = NoScan,
                      !.cleanup0 = NoCleanup]
    /\ UNCHANGED <<now, pc, dry_run, backup_enabled, plan, sorted_suggestions,
                   op_index, report, outcome, runs, ops, scenario>>

\* AIOrganizer.validate_suggestions(plan, base_path), before the first run;
\* the history keeps the result of the call before when it was given the
\* same plan
Validate(p) ==
    /\ pc = "idle"
    /\ runs = 0
    /\ LET r == ValidateSuggestions(fs, p)
       IN  /\ fs' = r.fs
           /\ validation' = [status |-> "returned", plan |-> p,
                             valid |-> r.valid, errors |-> r.errors]
    /\ scan' = NoScan
    /\ cleanup' = NoCleanup
    /\ h' = [h EXCEPT !.step = "validate", !.prev = h.step, !.pre = fs,
                      !.validation0 = IF validation.status = "returned"
                                         /\ validation.plan = p
                                      THEN validation ELSE NoValidation,
                      !.scan0 = NoScan, !.cleanup0 = NoCleanup]
    /\ UNCHANGED <<now, pc, dry_run, backup_enabled, plan, sorted_suggestions,
                   op_index, report, outcome, undo_result, runs, ops,
                   scenario>>

\* TreeGenerator(root_path).generate_tree(max_depth, include_hidden) and
\* tree_to_text of its result, before the first run; the history keeps the
\* result of the scan before when it had the same root and depth
Scan(c) ==
    /\ pc = "idle"
    /\ runs = 0
    /\ Exists(fs, c.root_path)
    /\ LET built == GenerateTree(fs, c.root_path, c.max_depth,
                                 c.include_hidden, c.order)
       IN  scan' = [status |-> "returned", root_path |-> c.root_path,
                    max_depth |-> c.max_depth,
                    include_hidden |-> c.include_hidden, order |-> c.order,
                    built |-> built, text |-> TextOf(built)]
    /\ validation' = NoValidation
    /\ cleanup' = NoCleanup
    /\ h' = [h EXCEPT !.step = "scan", !.prev = h.step, !.pre = fs,
                      !.scan0 = IF /\ scan.status = "returned"
                                   /\ scan.root_path = c.root_path
                                   /\ scan.max_depth = c.max_depth
                                THEN scan ELSE NoScan,
                      !.validation0 = NoValidation,
                      !.cleanup0 = NoCleanup]
    /\ UNCHANGED <<fs, now, pc, dry_run, backup_enabled, plan,
                   sorted_suggestions, op_index, report, outcome, undo_result,
                   runs, ops, scenario>>

\* FileOperations(base_path, dry).cleanup_empty_directories(path), before
\* the first run; the history keeps the result of the cleanup before when
\* it was given the same path
Cleanup(c) ==
    /\ pc = "idle"
    /\ runs = 0
    /\ IsDir(fs, c.path)
    /\ LET r == CleanupEmptyDirectories(fs, c.path, c.dry, c.order)
       IN  /\ fs' = r.fs
           /\ cleanup' = [status |-> "returned", path |-> c.path,
                          dry |-> c.dry, count |-> r.count, pre |-> fs]
    /\ validation' = NoValidation
    /\ scan' = NoScan
    /\ h' = [h EXCEPT !.step = "cleanup", !.prev = h.step, !.pre = fs,
                      !.cleanup0 = IF /\ cleanup.status = "returned"
                                      /\ cleanup.path = c.path
                                   THEN cleanup ELSE NoCleanup,
                      !.validation0 = NoValidation, !.scan0 = NoScan]
    /\ UNCHANGED <<now, pc, dry_run, backup_enabled, plan, sorted_suggestions,
                   op_index, report, outcome, undo_result, runs, ops,
                   scenario>>

\* time passes
Tick ==
    /\ now < MaxTime
    /\ scenario.clock = "free" \/ pc = "idle"
    /\ now' = now + 1
    /\ UNCHANGED <<fs, pc, dry_run, backup_enabled, plan, sorted_suggestions,
                   op_index, report, outcome, undo_result, runs, ops,
                   validation, scan, cleanup, h, scenario>>

Next ==
    \/ \E n \in 0..(MaxOps + scenario.extra - ops) :
           \E p \in PlansOver(scenario.suggestions, n), m \in scenario.modes :
               BeginRun(p, m[1], m[2])
    \/ \E ds \in DirSizes, dd \in DirSizes : ExecuteOperation(ds, dd)
    \/ FinishRun
    \/ Undo
    \/ \E p \in scenario.validated : Validate(p)
    \/ \E c \in scenario.scans : Scan(c)
    \/ \E c \in scenario.cleanups : Cleanup(c)
    \/ Tick

Spec == Init /\ [][Next]_vars

\* plans of every kind of suggestion, on one library
InitOrder ==
    InitWith({Tree(2, 2)},
             [Scenario(OrderSuggestions,
                       {<<TRUE, TRUE>>, <<FALSE, FALSE>>}, 0)
                 EXCEPT !.clock = "between calls"])

SpecOrder == InitOrder /\ [][Next]_vars

\* plans of failing suggestions, on one library
InitFailing == InitOn({Tree(2, 2)}, FailingSuggestions, AllModes)

SpecFailing == InitFailing /\ [][Next]_vars

\* real runs with backups followed by undos, on one library
InitUndo == InitOn({Tree(2, 2)}, UndoSuggestions, {<<FALSE, TRUE>>})

SpecUndo == InitUndo /\ [][Next]_vars

\* plans of create_directory suggestions, in real and in dry-run mode
InitCreate ==
    InitWith({Tree(2, 2)},
             [Scenario(CreateSuggestions,
                       {<<FALSE, FALSE>>, <<TRUE, FALSE>>}, 0)
                 EXCEPT !.clock = "between calls"])

SpecCreate == InitCreate /\ [][Next]_vars

\* one plan is validated, any number of times, against the library with
\* or without e; the runs that follow execute one suggestion
InitValidate ==
    \E p \in ValidatedPlans :
        InitWith({Tree(2, 2), TreeWith_e},
                 [Scenario({Suggestion("create_directory", <<>>, Path_e)},
                           {<<FALSE, FALSE>>}, 1 - MaxOps)
                     EXCEPT !.clock = "between calls",
                            !.validated = {p}])

SpecValidate == InitValidate /\ [][Next]_vars

\* the library, its hidden directory or its unlistable one is scanned to
\* one depth, any number of times; the runs that follow execute one
\* suggestion
InitScan ==
    \E root \in {<<>>, Path_h, Path_l}, max_depth \in 0..MaxDepth :
        InitWith(ScannedTrees,
                 [Scenario({Suggestion("create_directory", <<>>, Path_e)},
                           {<<FALSE, FALSE>>}, 1 - MaxOps)
                     EXCEPT !.clock = "between calls",
                            !.scans = ScanCalls(root, max_depth)])

SpecScan == InitScan /\ [][Next]_vars

\* the library or its directory s is cleaned up, any number of times, dry
\* or not; the runs that follow execute one suggestion
InitCleanup ==
    \E path \in {<<>>, Path_s} :
        InitWith(CleanedTrees,
                 [Scenario({Suggestion("create_directory", <<>>, Path_e)},
                           {<<FALSE, FALSE>>}, 1 - MaxOps)
                     EXCEPT !.clock = "between calls",
                            !.cleanups =
                         {CleanupCall(Join(BasePath, path), dry, order) :
                             dry \in BOOLEAN,
                             order \in {"ascending", "descending"}}])

SpecCleanup == InitCleanup /\ [][Next]_vars

\* real runs of plans with absolute destinations, with and without backups
InitEscape ==
    InitOn({Tree(2, 2)}, EscapeSuggestions, {<<FALSE, FALSE>>, <<FALSE, TRUE>>})

SpecEscape == InitEscape /\ [][Next]_vars

\* plans of rejected suggestions, in real and in dry-run mode with backups
InitRejected ==
    InitWith({Tree(2, 2)},
             [Scenario(RejectedSuggestions,
                       {<<FALSE, TRUE>>, <<TRUE, TRUE>>}, 0)
                 EXCEPT !.clock = "between calls"])

SpecRejected == InitRejected /\ [][Next]_vars

\* plans of up to one suggestion more than MaxOps that create a directory and
\* move a file into it, in real mode without backups
InitFresh ==
    InitWith({Tree(3, 2)},
             [Scenario(FreshSuggestions, {<<FALSE, FALSE>>}, 1)
                 EXCEPT !.clock = "between calls"])

SpecFresh == InitFresh /\ [][Next]_vars

\* ------------------------------------------------------------------------
\* Well-formedness of the model
\* ------------------------------------------------------------------------
\* every existing path lies in an existing directory
TreeShaped == \A p \in DOMAIN fs : IsDir(fs, Parent(p))

\* ------------------------------------------------------------------------
\* Vocabulary of the properties
\* ------------------------------------------------------------------------
\* the report files under the reports directory
ReportFiles(f) ==
    {p \in DOMAIN f : /\ Parent(p) = ReportsDir
                      /\ StartsWith(Name(p), ReportPrefix)
                      /\ EndsWith(Name(p), JsonSuffix)}

\* the last step was the execution of a move suggestion in real mode
RealMoveStep == h.step = "op" /\ h.sugg.operation = "move" /\ ~dry_run

\* the source and the requested destination of the suggestion last executed
LastSource == Join(BasePath, h.sugg.source_path)

LastDest == Join(BasePath, h.sugg.destination_path)

\* the OperationResult last appended to the report
LastResult == report.results[Len(report.results)]

\* the move last executed relocated the file
Performed == h.how \in {"free", "overwrite", "unique"}

\* the overwrite policy as the specification words it
Prevails(src, dst) ==
    \/ src.size > dst.size
    \/ src.size = dst.size /\ src.mtime > dst.mtime

\* <stem>.NN<ext> next to the requested destination
Numbered(dest_path, n) ==
    Parent(dest_path) \o Slash \o Stem(dest_path) \o <<".">> \o Fmt02(n)
        \o Suffix(dest_path)

\* a run is under way or has just ended
InRun == runs > 0 /\ (pc = "running" \/ h.step = "finish")

\* ------------------------------------------------------------------------
\* C1
\* ------------------------------------------------------------------------
\* an undo is the first thing done after a run in real mode with backups
\* whose last operation was a move that succeeded
UndoRightAfterMove ==
    /\ h.step = "undo" /\ h.prev = "finish"
    /\ ~dry_run /\ backup_enabled
    /\ Performed

\* C1: an undo called right after a successful real move with backups
\* returns True, puts the moved file back at its source path, and leaves no
\* file at the path the file was moved to - whether the destination was
\* free, overwritten or disambiguated.
C1_UndoRestoresMove ==
    UndoRightAfterMove =>
        /\ undo_result = "True"
        /\ LastResult.source_path \in DOMAIN fs
        /\ fs[LastResult.source_path] = h.pre[LastResult.destination_path]
        /\ LastResult.destination_path \notin DOMAIN fs

\* ------------------------------------------------------------------------
\* C2
\* ------------------------------------------------------------------------
\* the last step was a real move of a file onto a path that held a file
MoveOntoFile ==
    /\ RealMoveStep
    /\ IsFile(h.pre, LastSource)
    /\ IsFile(h.pre, LastDest)

\* C2: a real move onto an existing destination file replaces that file by
\* the source if and only if the source is strictly larger, or of equal size
\* and strictly newer; in every other case the existing file is kept at the
\* destination.
C2_OverwritePolicy ==
    MoveOntoFile =>
        IF Prevails(h.pre[LastSource], h.pre[LastDest])
        THEN IsFile(fs, LastDest) /\ fs[LastDest] = h.pre[LastSource]
        ELSE IsFile(fs, LastDest) /\ fs[LastDest] = h.pre[LastDest]

\* the same, for a move whose source is not the destination itself
C2_OverwritePolicyOfDistinctPaths ==
    (MoveOntoFile /\ LastSource # LastDest) =>
        IF Prevails(h.pre[LastSource], h.pre[LastDest])
        THEN IsFile(fs, LastDest) /\ fs[LastDest] = h.pre[LastSource]
        ELSE IsFile(fs, LastDest) /\ fs[LastDest] = h.pre[LastDest]

\* ------------------------------------------------------------------------
\* C3
\* ------------------------------------------------------------------------
\* the last step was a real move that kept the existing destination
KeptDestination == RealMoveStep /\ h.how = "unique"

\* C3: a real move that keeps the existing destination places the source at
\* <stem>.NN<ext> in the same directory, NN being the smallest counter from
\* 01 whose path is unused; the file at the destination and the files at
\* the lower-numbered paths are unchanged, and the result names the
\* disambiguated path.
C3_Disambiguation ==
    KeptDestination =>
        \E n \in 1..(Cardinality(DOMAIN h.pre) + 1) :
            /\ LastResult.destination_path = Numbered(LastDest, n)
            /\ Numbered(LastDest, n) \notin DOMAIN h.pre
            /\ IsFile(fs, Numbered(LastDest, n))
            /\ fs[Numbered(LastDest, n)] = h.pre[LastSource]
            /\ \A k \in 1..(n - 1) :
                   /\ Numbered(LastDest, k) \in DOMAIN h.pre
                   /\ Numbered(LastDest, k) \in DOMAIN fs
                   /\ fs[Numbered(LastDest, k)] = h.pre[Numbered(LastDest, k)]
            /\ LastDest \in DOMAIN fs
            /\ fs[LastDest] = h.pre[LastDest]

\* the same, for a move whose source is not the destination itself
C3_DisambiguationOfDistinctPaths ==
    (KeptDestination /\ LastSource # LastDest) =>
        \E n \in 1..(Cardinality(DOMAIN h.pre) + 1) :
            /\ LastResult.destination_path = Numbered(LastDest, n)
            /\ Numbered(LastDest, n) \notin DOMAIN h.pre
            /\ IsFile(fs, Numbered(LastDest, n))
            /\ fs[Numbered(LastDest, n)] = h.pre[LastSource]
            /\ \A k \in 1..(n - 1) :
                   /\ Numbered(LastDest, k) \in DOMAIN h.pre
                   /\ Numbered(LastDest, k) \in DOMAIN fs
                   /\ fs[Numbered(LastDest, k)] = h.pre[Numbered(LastDest, k)]
            /\ LastDest \in DOMAIN fs
            /\ fs[LastDest] = h.pre[LastDest]

\* ------------------------------------------------------------------------
\* C4
\* ------------------------------------------------------------------------
\* the suggestions executed so far in the current or last run, in the order
\* of their execution (one result is appended per executed suggestion)
Executed == SubSeq(sorted_suggestions, 1, Len(report.results))

\* C4: in every run all create_directory suggestions are executed before any
\* move suggestion, and the suggestions of each of the two kinds are executed
\* in ascending order of destination_path, whatever the order of the plan.
C4_ExecutionOrder ==
    \A j \in 1..Len(Executed), k \in 1..Len(Executed) :
        j < k =>
            /\ ~(/\ Executed[j].operation = "move"
                 /\ Executed[k].operation = "create_directory")
            /\ (/\ Executed[j].operation = Executed[k].operation
                /\ Executed[j].operation \in {"create_directory", "move"})
               => ~StrLess(Executed[k].destination_path,
                           Executed[j].destination_path)

\* a run has executed a plan that lists a move before a create_directory
C4_Witness ==
    /\ pc = "idle" /\ outcome = "returned"
    /\ Len(Executed) = Len(plan)
    /\ \E j \in 1..Len(plan), k \in 1..Len(plan) :
           /\ j < k
           /\ plan[j].operation = "move"
           /\ plan[k].operation = "create_directory"

\* a run has executed a plan that lists two suggestions of one kind in
\* descending order of destination
C4_WitnessSameKind ==
    /\ pc = "idle" /\ outcome = "returned"
    /\ Len(Executed) = Len(plan)
    /\ \E j \in 1..Len(plan), k \in 1..Len(plan) :
           /\ j < k
           /\ plan[j].operation = plan[k].operation
           /\ plan[j].operation \in {"create_directory", "move"}
           /\ StrLess(plan[k].destination_path, plan[j].destination_path)

\* ------------------------------------------------------------------------
\* C5
\* ------------------------------------------------------------------------
\* C5: every call of execute_plan finishes and returns a report with exactly
\* one result per suggestion of the plan, each suggestion being attempted
\* once; a failing operation is recorded and never raises out of the run.
C5_RunCompletes ==
    (pc = "idle" /\ runs > 0) =>
        /\ outcome = "returned"
        /\ Len(report.results) = Len(plan)
        /\ \A x \in scenario.suggestions :
               Cardinality({k \in 1..Len(plan) : plan[k] = x})
                   = Cardinality({k \in 1..Len(Executed) : Executed[k] = x})

\* ------------------------------------------------------------------------
\* C6
\* ------------------------------------------------------------------------
\* the path of the report file of the current run
ReportFileOfRun ==
    ReportsDir \o Slash \o ReportPrefix \o Stamp(report.start_time)
        \o JsonSuffix

\* the paths a dry run may touch: the reports directory and its report file
ReportPaths == {ReportsDir, ReportFileOfRun}

\* C6: a dry run creates no directory, moves, overwrites or deletes no file
\* and writes no backup record: during and after the run the filesystem is
\* what it was when the run began, except for the reports directory and the
\* report of the run.
C6_DryRunFrame ==
    (InRun /\ dry_run) =>
        /\ DOMAIN h.fs0 \ ReportPaths = DOMAIN fs \ ReportPaths
        /\ \A p \in DOMAIN fs \ ReportPaths : fs[p] = h.fs0[p]

\* a dry run has ended that reported the creation of a directory that does
\* not exist and the move of a file that exists
C6_Witness ==
    /\ dry_run /\ h.step = "finish" /\ outcome = "returned"
    /\ \E k \in 1..Len(report.results) :
           /\ report.results[k].operation = "create_directory"
           /\ report.results[k].success
           /\ report.results[k].destination_path \notin DOMAIN h.fs0
    /\ \E k \in 1..Len(report.results) :
           /\ report.results[k].operation = "move"
           /\ report.results[k].success
           /\ report.results[k].source_path \in DOMAIN h.fs0

\* ------------------------------------------------------------------------
\* C7
\* ------------------------------------------------------------------------
\* C7: every run that returns has persisted a report file of its own: after
\* n such runs there are n report files, none overwritten by a later run,
\* whatever the time between the starts of the runs.
C7_OneReportPerRun ==
    pc = "idle" => Cardinality(ReportFiles(fs)) = h.returned

\* ------------------------------------------------------------------------
\* C8
\* ------------------------------------------------------------------------
\* the moves of the current run whose source existed when they were executed
MovesWithSource ==
    {k \in 1..Len(report.results) :
        /\ report.results[k].operation = "move"
        /\ report.results[k].error_message # "Source file not found"}

\* C8: in a real run with backups every move whose source exists gets a
\* backup record of its own: the number of records grows by the number of
\* such moves, however quickly the moves follow each other.
C8_OneBackupPerMove ==
    (InRun /\ ~dry_run /\ backup_enabled) =>
        Cardinality(BackupFiles(fs))
            = Cardinality(BackupFiles(h.fs0)) + Cardinality(MovesWithSource)

\* ------------------------------------------------------------------------
\* C9
\* ------------------------------------------------------------------------
\* before the last undo there was no backup record, or the destination
\* recorded in the most recent one did not exist
NothingToUndo ==
    /\ h.step = "undo"
    /\ \/ BackupFiles(h.pre) = {}
       \/ /\ IsFile(h.pre, LatestBackup(h.pre))
          /\ "destination" \in DOMAIN h.pre[LatestBackup(h.pre)].data
          /\ ~Exists(h.pre, h.pre[LatestBackup(h.pre)].data.destination)

\* C9: with no backup record, or with the destination of the most recent
\* record gone, undo_last_operation returns False and leaves every file,
\* directory and backup record as it was.
C9_UndoFailsCleanly ==
    NothingToUndo => undo_result = "False" /\ fs = h.pre

\* an undo has found two backup records, the destination of the most recent
\* one missing and the destination of the other one present
C9_Witness ==
    /\ NothingToUndo
    /\ Cardinality(BackupFiles(h.pre)) > 1
    /\ \E b \in BackupFiles(h.pre) :
           Exists(h.pre, h.pre[b].data.destination)
    /\ undo_result = "False"

\* an undo has found the backup directory without a record in it
C9_WitnessNoRecord ==
    /\ NothingToUndo
    /\ Exists(h.pre, BackupDir)
    /\ BackupFiles(h.pre) = {}
    /\ undo_result = "False"

\* ------------------------------------------------------------------------
\* C10
\* ------------------------------------------------------------------------
\* the backup record the last undo acted on
UndoneRecord == h.pre[LatestBackup(h.pre)].data

\* C10: a successful undo moves the file at the destination of the record
\* that sorts last back to the recorded source and deletes that record; no
\* other record and no other file is touched.
C10_UndoReversesOneMove ==
    (h.step = "undo" /\ undo_result = "True") =>
        /\ UndoneRecord.destination \notin DOMAIN fs
        /\ LatestBackup(h.pre) \notin DOMAIN fs
        /\ UndoneRecord.source \in DOMAIN fs
        /\ fs[UndoneRecord.source] = h.pre[UndoneRecord.destination]
        /\ DOMAIN fs \subseteq DOMAIN h.pre \cup {UndoneRecord.source}
        /\ \A p \in DOMAIN h.pre \ {UndoneRecord.destination,
                                    LatestBackup(h.pre)} :
               p \in DOMAIN fs /\ fs[p] = h.pre[p]

\* ------------------------------------------------------------------------
\* C11
\* ------------------------------------------------------------------------
\* the last step executed a create_directory suggestion in real mode
RealCreateStep ==
    h.step = "op" /\ h.sugg.operation = "create_directory" /\ ~dry_run

\* the last two steps executed the same create_directory suggestion in real
\* mode, one right after the other
CreatedTwice ==
    /\ RealCreateStep
    /\ Len(report.results) >= 2
    /\ Executed[Len(report.results) - 1] = h.sugg

\* the result of the first of the two executions
FirstResult == report.results[Len(report.results) - 1]

\* C11 as stated: a real create_directory of an existing directory succeeds
\* and changes nothing, and the second of two executions in a row of one
\* create_directory suggestion changes nothing, both results successful.
C11_CreateIdempotentAlwaysSuccessful ==
    /\ (RealCreateStep /\ IsDir(h.pre, LastDest)) =>
           LastResult.success /\ fs = h.pre
    /\ CreatedTwice =>
           fs = h.pre /\ FirstResult.success /\ LastResult.success

\* C11: a real create_directory of an existing directory succeeds and
\* changes nothing; the second of two executions in a row of one
\* create_directory suggestion changes nothing and succeeds whenever the
\* first one did, and fails with the same error when the first one failed.
C11_CreateIdempotent ==
    /\ (RealCreateStep /\ IsDir(h.pre, LastDest)) =>
           LastResult.success /\ fs = h.pre
    /\ CreatedTwice =>
           /\ fs = h.pre
           /\ LastResult = FirstResult
           /\ FirstResult.success <=> Exists(h.pre, LastDest)

\* a new directory and its missing parent have been created by the first of
\* two executions in a row of one suggestion
C11_Witness ==
    /\ CreatedTwice
    /\ FirstResult.success
    /\ LastDest \notin DOMAIN h.fs0
    /\ Parent(LastDest) \notin DOMAIN h.fs0

\* ------------------------------------------------------------------------
\* C12
\* ------------------------------------------------------------------------
\* the leaf names a file called name may carry after a move: name itself or
\* name with a .NN suffix before its extension
KeepsLeafName(name, final) ==
    \/ final = name
    \/ \E n \in 1..99 : final = Stem(name) \o <<".">> \o Fmt02(n) \o Suffix(name)

\* C12: after a successful real move the leaf name of the file at its final
\* location is the leaf name of its source path, optionally extended by the
\* .NN suffix, whatever leaf name the destination of the suggestion carries.
C12_LeafNamePreserved ==
    (RealMoveStep /\ LastResult.success) =>
        KeepsLeafName(Name(LastResult.source_path),
                      Name(LastResult.destination_path))

\* ------------------------------------------------------------------------
\* C16
\* ------------------------------------------------------------------------
\* the positions of the move suggestions of plan p
MovesOf(p) == {k \in 1..Len(p) : p[k].operation = "move"}

\* the positions of the create_directory suggestions of plan p
CreatesOf(p) == {k \in 1..Len(p) : p[k].operation = "create_directory"}

\* on filesystem f, plan p is made of create_directory suggestions and of
\* moves of distinct existing files to distinct unused paths inside
\* directories that the create_directory suggestions of p name
FreshPlan(f, p) ==
    /\ MovesOf(p) # {}
    /\ MovesOf(p) \cup CreatesOf(p) = 1..Len(p)
    /\ \A k \in MovesOf(p) :
           /\ IsFile(f, Join(BasePath, p[k].source_path))
           /\ ~Exists(f, Join(BasePath, p[k].destination_path))
           /\ \E c \in CreatesOf(p) :
                  /\ Under(Parent(Join(BasePath, p[k].destination_path)),
                           Join(BasePath, p[c].destination_path))
                  /\ ~Exists(f, Join(BasePath, p[c].destination_path))
    /\ \A j \in MovesOf(p), k \in MovesOf(p) :
           j # k => /\ p[j].source_path # p[k].source_path
                    /\ p[j].destination_path # p[k].destination_path

\* on filesystem f, no create_directory suggestion of p names a path at or
\* below a regular file
Creatable(f, p) ==
    \A c \in CreatesOf(p) :
        \A q \in Ancestors(Join(BasePath, p[c].destination_path))
                  \cup {Join(BasePath, p[c].destination_path)} :
            ~IsFile(f, q)

\* what C16 promises of the run that has just ended
AllMoved ==
    /\ outcome = "returned"
    /\ report.failed_operations = 0
    /\ report.successful_operations = Len(plan)
    /\ ReportFileOfRun \in DOMAIN fs
    /\ fs[ReportFileOfRun].data.failed_operations = 0
    /\ \A k \in MovesOf(plan) :
           LET src == Join(BasePath, plan[k].source_path)
               dst == Join(BasePath, plan[k].destination_path)
           IN  /\ src \notin DOMAIN fs
               /\ IsFile(fs, dst)
               /\ fs[dst] = h.fs0[src]
               /\ \E n \in 1..Len(report.results) :
                      /\ report.results[n].operation = "move"
                      /\ report.results[n].source_path = src
                      /\ report.results[n].destination_path = dst
                      /\ report.results[n].bytes_moved = h.fs0[src].size

Validated == h.step = "validate" /\ validation.status = "returned"

InValid(suggestion) ==
    \E k \in 1..Len(validation.valid) : validation.valid[k] = suggestion

HasError(message, path) ==
    \E k \in 1..Len(validation.errors) :
        validation.errors[k] = ValidationError(message, path)

\* C13: validate_suggestions partitions the plan: the valid list and the
\* errors together account for every suggestion, so that
\* len(valid) + len(errors) = len(plan.suggestions) whatever operation the
\* suggestions carry.
C13_ValidationPartitionsPlan ==
    Validated =>
        Len(validation.valid) + Len(validation.errors) = Len(validation.plan)

\* a move of the validated plan whose source exists and whose destination's
\* parent does not
MoveToMissingParent(suggestion) ==
    /\ suggestion.operation = "move"
    /\ Exists(fs, Join(BasePath, suggestion.source_path))
    /\ ~Exists(fs, Parent(Join(BasePath, suggestion.destination_path)))

\* the plan creates the parent of the destination or an ancestor of it
CreatesParentOrAncestor(p, suggestion) ==
    \E k \in 1..Len(p) :
        /\ p[k].operation = "create_directory"
        /\ Under(Parent(Join(BasePath, suggestion.destination_path)),
                 Join(BasePath, p[k].destination_path))

\* C14: a move whose source exists and whose destination's parent does not
\* is accepted if and only if the plan has a create_directory for that
\* parent or an ancestor of it, and is otherwise rejected with the
\* destination-directory error; a move whose source does not exist is
\* never in the valid list.
C14_MoveAcceptedIffParentCreated ==
    Validated =>
        \A k \in 1..Len(validation.plan) :
            LET suggestion == validation.plan[k]
                dest_path  == Join(BasePath, suggestion.destination_path)
            IN  /\ MoveToMissingParent(suggestion) =>
                       IF CreatesParentOrAncestor(validation.plan, suggestion)
                       THEN InValid(suggestion)
                       ELSE /\ ~InValid(suggestion)
                            /\ HasError("Destination directory doesn't exist",
                                        Parent(dest_path))
                /\ (/\ suggestion.operation = "move"
                    /\ ~Exists(fs, Join(BasePath, suggestion.source_path)))
                       => /\ ~InValid(suggestion)
                          /\ HasError("Source file not found",
                                      suggestion.source_path)

\* C15: validate_suggestions leaves the filesystem as it was, and a second
\* call with the same plan on the unchanged filesystem returns the same
\* valid list and the same errors.
C15_ValidationIsPure ==
    h.step = "validate" =>
        /\ fs = h.pre
        /\ h.validation0.status = "returned" =>
               /\ validation.valid = h.validation0.valid
               /\ validation.errors = h.validation0.errors

\* the same plan validated twice, a move to a missing parent in it, with
\* something accepted and something rejected
C15_Witness ==
    /\ Validated
    /\ h.validation0.status = "returned"
    /\ validation.valid # <<>>
    /\ validation.errors # <<>>
    /\ \E k \in 1..Len(validation.plan) :
           MoveToMissingParent(validation.plan[k])

\* ------------------------------------------------------------------------
\* generate_tree and tree_to_text
\* ------------------------------------------------------------------------
\* the scan of the last step returned a tree or None
ScanReturned ==
    h.step = "scan" /\ scan.status = "returned" /\ scan.built.status # "raise"

ScanReturnedTree == ScanReturned /\ scan.built.status = "node"

ChildrenOf(node) ==
    IF node.children = NoChildren THEN <<>> ELSE node.children.list

RECURSIVE NodesAt(_, _)
\* the nodes of the tree below and including node, each with its depth
NodesAt(node, depth) ==
    {[node |-> node, depth |-> depth]}
    \cup UNION {NodesAt(ChildrenOf(node)[k], depth + 1) :
                   k \in 1..Len(ChildrenOf(node))}

\* the nodes of what a scan returned, the root at depth 0
NodesOf(built) == IF built.status = "node" THEN NodesAt(built.node, 0) ELSE {}

PathsIn(built) == {n.node.path : n \in NodesOf(built)}

\* the depth of entry q below root
DepthBelow(root, q) ==
    Cardinality({i \in (Len(root) + 1)..Len(q) : q[i] = "/"})

\* root, q and the directories between them
FromRoot(root, q) == {a \in Ancestors(q) \cup {q} : Under(a, root)}

HiddenName(q) == StartsWith(Name(q), <<".">>)

\* q or a directory between root and q is hidden
InHidden(root, q) == \E a \in FromRoot(root, q) : HiddenName(a)

\* the entries of the scanned directory within the depth bound whose
\* ancestors are all listable
Reachable(root, max_depth) ==
    {q \in DOMAIN fs :
        /\ Under(q, root)
        /\ DepthBelow(root, q) <= max_depth
        /\ \A a \in FromRoot(root, q) \ {q} : Listable(fs, a)}

\* the nodes of the tree are entries of the scanned directory at the
\* depth they have in it, none deeper than max_depth, each child an entry
\* of its parent, and a directory at depth max_depth has an empty list
DepthBounded ==
    \A n \in NodesOf(scan.built) :
        /\ n.depth <= scan.max_depth
        /\ n.node.path \in DOMAIN fs
        /\ Under(n.node.path, scan.root_path)
        /\ DepthBelow(scan.root_path, n.node.path) = n.depth
        /\ \A k \in 1..Len(ChildrenOf(n.node)) :
               Parent(ChildrenOf(n.node)[k].path) = n.node.path
        /\ (n.node.type = "directory" /\ n.depth = scan.max_depth)
               => n.node.children = Children(<<>>)

\* C17 as stated: no node deeper than max_depth, and every entry within the
\* bound that is not hidden and whose ancestors are listable is present.
C17_DepthBoundAndAllListedPresent ==
    ScanReturned =>
        /\ DepthBounded
        /\ \A q \in Reachable(scan.root_path, scan.max_depth) :
               ~InHidden(scan.root_path, q) => q \in PathsIn(scan.built)

\* C17: generate_tree(max_depth = d) returns a tree with no node deeper
\* than d, in which a directory at depth d has an empty children list and
\* deeper entries have no node of any kind; every entry at depth <= d that
\* is not hidden, whose ancestors are listable and that is not itself a
\* directory that cannot be listed, is present.
C17_DepthBound ==
    ScanReturned =>
        /\ DepthBounded
        /\ \A q \in Reachable(scan.root_path, scan.max_depth) :
               (/\ ~InHidden(scan.root_path, q)
                /\ IsDir(fs, q) => Listable(fs, q))
                   => q \in PathsIn(scan.built)

\* a scan that pruned entries below its depth bound, left a directory at
\* the bound with an empty list, and met a directory it could not list
C17_Witness ==
    /\ ScanReturnedTree
    /\ scan.root_path = BasePath
    /\ \E q \in DOMAIN fs :
           Under(q, BasePath) /\ ~InHidden(BasePath, q)
           /\ DepthBelow(BasePath, q) > scan.max_depth
    /\ \E n \in NodesOf(scan.built) :
           /\ n.depth = scan.max_depth /\ n.depth > 0
           /\ n.node.type = "directory"
           /\ Entries(fs, n.node.path) # {}
    /\ \E q \in Reachable(BasePath, scan.max_depth) : ~Listable(fs, q)
                                                        /\ IsDir(fs, q)

Ascending(node) ==
    \A j, k \in 1..Len(ChildrenOf(node)) :
        j < k => StrLess(ChildrenOf(node)[j].name, ChildrenOf(node)[k].name)

\* C19: the children of every directory node are in ascending name order
\* whatever order the filesystem lists them in; two scans of an unchanged
\* tree with the same parameters return identical trees, and tree_to_text
\* of them is identical text.
C19_ScanDeterministic ==
    h.step = "scan" =>
        /\ \A n \in NodesOf(scan.built) : Ascending(n.node)
        /\ (/\ h.scan0.status = "returned"
            /\ h.scan0.include_hidden = scan.include_hidden)
               => /\ scan.built = h.scan0.built
                  /\ scan.text = h.scan0.text

\* two scans with the same parameters, the filesystem listing its
\* directories in different orders, of a tree with three children
C19_Witness ==
    /\ ScanReturnedTree
    /\ h.scan0.status = "returned"
    /\ h.scan0.include_hidden = scan.include_hidden
    /\ h.scan0.order # scan.order
    /\ Len(ChildrenOf(scan.built.node)) >= 3
    /\ \E n \in NodesOf(scan.built) : n.depth = 2

\* a node is a file with a MediaFile and no children sequence, or a
\* directory with a children sequence and no MediaFile
WellFormed(node) ==
    \/ /\ node.type = "file"
       /\ node.media_file # NoMediaFile
       /\ node.children = NoChildren
    \/ /\ node.type = "directory"
       /\ node.media_file = NoMediaFile
       /\ node.children # NoChildren

Removed == DOMAIN h.pre \ DOMAIN fs

\* every directory of f at or below path can be listed
AllListable(f, path) ==
    \A q \in DOMAIN f : (Under(q, path) /\ IsDir(f, q)) => Listable(f, q)

\* directory q of f holds no file, at any depth
HoldsNoFile(f, q) == \A r \in DOMAIN f : Under(r, q) => IsDir(f, r)

\* the last step was a real cleanup that followed a dry one of the same
\* path on the same filesystem
RealAfterDry ==
    /\ h.step = "cleanup" /\ ~cleanup.dry
    /\ h.cleanup0.status = "returned"
    /\ h.cleanup0.dry
    /\ h.cleanup0.pre = h.pre

\* C21: on the same directory tree a dry cleanup returns the count that a
\* real cleanup returns as the number of directories it removes, the
\* directories that only contain empty directories included, and a dry
\* cleanup removes nothing.
C21_DryCountsWhatRealRemoves ==
    /\ (h.step = "cleanup" /\ cleanup.dry) => fs = h.pre
    /\ RealAfterDry =>
           /\ cleanup.count = Cardinality(Removed)
           /\ h.cleanup0.count = cleanup.count

\* C22: a real cleanup removes nothing but directories below the starting
\* path that hold no file at any depth, leaves every other entry as it
\* was, and returns the number of directories it removed; when every
\* directory can be listed it removes all of those directories, so that
\* no empty directory remains below the starting path.
C22_RealCleanupRemovesEmptyDirectories ==
    (h.step = "cleanup" /\ ~cleanup.dry) =>
        /\ DOMAIN fs \subseteq DOMAIN h.pre
        /\ \A q \in DOMAIN fs : fs[q] = h.pre[q]
        /\ \A q \in Removed :
               /\ IsDir(h.pre, q)
               /\ q # cleanup.path /\ Under(q, cleanup.path)
               /\ HoldsNoFile(h.pre, q)
        /\ cleanup.count = Cardinality(Removed)
        /\ AllListable(h.pre, cleanup.path) =>
               /\ \A q \in DOMAIN h.pre :
                      (/\ IsDir(h.pre, q) /\ HoldsNoFile(h.pre, q)
                       /\ q # cleanup.path /\ Under(q, cleanup.path))
                          => q \in Removed
               /\ \A q \in DOMAIN fs :
                      (IsDir(fs, q) /\ q # cleanup.path
                          /\ Under(q, cleanup.path))
                          => Entries(fs, q) # {}

\* a real cleanup of the library has removed a directory three levels down
\* and its parent, has kept the directory above them that holds a file
\* too, and has kept the directory that holds only a file
C22_Witness ==
    /\ h.step = "cleanup" /\ ~cleanup.dry
    /\ cleanup.path = BasePath
    /\ AllListable(h.pre, BasePath)
    /\ {Join(Join(BasePath, Path_s_b), Path_e), Join(BasePath, Path_s_b),
        Join(BasePath, Path_h)} \subseteq Removed
    /\ IsFile(fs, Join(BasePath, Path_s_p))
    /\ IsDir(fs, Join(BasePath, Path_l))
    /\ cleanup.count = 3

\* ------------------------------------------------------------------------
\* C23
\* ------------------------------------------------------------------------
\* the last step executed a move whose source did not exist
MoveOfMissingSource ==
    h.step = "op" /\ h.sugg.operation = "move" /\ ~Exists(h.pre, LastSource)

\* C23: a move whose source does not exist when it is executed yields a
\* failed result with the source-not-found message, in dry-run mode as in
\* real mode, and changes nothing: no backup record, no directory, no file.
C23_MissingSourceFails ==
    MoveOfMissingSource =>
        /\ ~LastResult.success
        /\ LastResult.operation = "move"
        /\ LastResult.source_path = LastSource
        /\ LastResult.error_message = "Source file not found"
        /\ fs = h.pre

\* a move of a missing source was executed in real mode with backups while
\* the backup directory did not exist yet
C23_Witness ==
    /\ MoveOfMissingSource
    /\ ~dry_run /\ backup_enabled
    /\ BackupDir \notin DOMAIN h.pre
    /\ ~LastResult.success

\* ------------------------------------------------------------------------
\* C24
\* ------------------------------------------------------------------------
\* the path of the backup record of the move last executed
RecordOfMove ==
    BackupDir \o Slash \o BackupPrefix \o Stamp(h.at) \o JsonSuffix

\* the record of the move last executed is on disk, with the size the
\* source had before the move
RecordOnDisk ==
    /\ IsFile(fs, RecordOfMove)
    /\ fs[RecordOfMove].data.operation = "move"
    /\ fs[RecordOfMove].data.timestamp = h.at
    /\ fs[RecordOfMove].data.source = LastSource
    /\ fs[RecordOfMove].data.destination = LastDest
    /\ IF IsFile(h.pre, LastSource)
       THEN fs[RecordOfMove].data.source_size = h.pre[LastSource].size
       ELSE fs[RecordOfMove].data.source_size \in DirSizes

\* C24: in a real move with backups the record is persisted before the
\* move changes anything: once the source check has passed, the record of
\* the move is on disk with the size the source had before the move, also
\* when the move then failed while creating the parent directories,
\* deleting the destination or relocating the file; or writing the record
\* failed, and then the move failed and changed nothing.
C24_RecordBeforeMove ==
    (RealMoveStep /\ backup_enabled /\ Exists(h.pre, LastSource)) =>
        \/ RecordOnDisk
        \/ ~LastResult.success /\ fs = h.pre

\* a move with backups has failed after its source check, while creating
\* the parent directory of its destination, and its record is on disk
C24_Witness ==
    /\ RealMoveStep /\ backup_enabled
    /\ IsFile(h.pre, LastSource)
    /\ h.how = "exception"
    /\ IsFile(h.pre, Parent(LastDest))
    /\ RecordOfMove \notin DOMAIN h.pre
    /\ RecordOnDisk

\* ------------------------------------------------------------------------
\* C25
\* ------------------------------------------------------------------------
UnknownOperation(suggestion) ==
    suggestion.operation \notin {"create_directory", "move"}

\* C25: a suggestion whose operation is neither create_directory nor move
\* yields a failed result that echoes its operation, source and
\* destination, changes nothing on the filesystem, is counted in
\* failed_operations, and the loop goes on to the next suggestion.
C25_UnknownOperationFails ==
    (h.step = "op" /\ UnknownOperation(h.sugg)) =>
        /\ ~LastResult.success
        /\ LastResult.operation = h.sugg.operation
        /\ LastResult.source_path = h.sugg.source_path
        /\ LastResult.destination_path = h.sugg.destination_path
        /\ fs = h.pre
        /\ report.failed_operations
               = Cardinality({k \in 1..Len(report.results) :
                                 ~report.results[k].success})
        /\ report.failed_operations > 0
        /\ pc = "running"
        /\ op_index = Len(report.results) + 1

\* a real run has returned in which a suggestion was executed after a
\* suggestion of an unknown operation
C25_Witness ==
    /\ h.step = "finish" /\ outcome = "returned" /\ ~dry_run
    /\ Len(report.results) = Len(plan)
    /\ \E k \in 1..(Len(report.results) - 1) :
           /\ UnknownOperation(sorted_suggestions[k])
           /\ ~report.results[k].success
           /\ report.results[k].operation = sorted_suggestions[k].operation

\* ------------------------------------------------------------------------
\* C26
\* ------------------------------------------------------------------------
RECURSIVE BytesOfSuccessful(_)
\* the sum of bytes_moved over the successful results of results
BytesOfSuccessful(results) ==
    IF results = <<>> THEN 0
    ELSE BytesOfSuccessful(SubSeq(results, 1, Len(results) - 1))
         + (IF results[Len(results)].success
               /\ results[Len(results)].bytes_moved # NoBytes
            THEN results[Len(results)].bytes_moved ELSE 0)

\* C26: in every report execute_plan returns, successful_operations +
\* failed_operations = total_operations = len(results) =
\* len(plan.suggestions), successful_operations is the number of results
\* with success = true, and total_bytes_moved is the sum of bytes_moved over
\* the successful results.
C26_ReportTotals ==
    (h.step = "finish" /\ outcome = "returned") =>
        /\ report.successful_operations + report.failed_operations
               = report.total_operations
        /\ report.total_operations = Len(report.results)
        /\ report.total_operations = Len(plan)
        /\ report.successful_operations
               = Cardinality({k \in 1..Len(report.results) :
                                 report.results[k].success})
        /\ report.total_bytes_moved = BytesOfSuccessful(report.results)

\* a real run has returned a report with a failure and with a success that
\* moved bytes
C26_Witness ==
    /\ h.step = "finish" /\ outcome = "returned" /\ ~dry_run
    /\ report.failed_operations > 0
    /\ report.successful_operations > 0
    /\ report.total_bytes_moved > 0

\* ------------------------------------------------------------------------
\* C27
\* ------------------------------------------------------------------------
\* the paths created, deleted or changed since the run began
Touched ==
    {p \in DOMAIN fs \cup DOMAIN h.fs0 :
        \/ p \notin DOMAIN fs
        \/ p \notin DOMAIN h.fs0
        \/ fs[p] # h.fs0[p]}

\* C27: a real run creates, deletes or moves only paths under the base
\* path, whatever the plan, absolute source or destination paths included.
C27_ConfinedToBasePath ==
    (InRun /\ ~dry_run) => \A p \in Touched : Under(p, BasePath)

\* ------------------------------------------------------------------------
\* C28
\* ------------------------------------------------------------------------
\* the backup records written or rewritten since the run began
RecordsOfRun ==
    {b \in BackupFiles(fs) : b \notin DOMAIN h.fs0 \/ fs[b] # h.fs0[b]}

\* C28: after a real run every backup record it left on disk describes a
\* move that relocated a file from the recorded source, and a move that
\* fails after its source check leaves no record of itself.
C28_RecordsDescribeMoves ==
    /\ (RealMoveStep /\ backup_enabled /\ ~LastResult.success) =>
           \A b \in BackupFiles(fs) : b \in DOMAIN h.pre /\ fs[b] = h.pre[b]
    /\ (h.step = "finish" /\ ~dry_run) =>
           \A b \in RecordsOfRun :
               \E k \in 1..Len(report.results) :
                   /\ report.results[k].success
                   /\ report.results[k].operation = "move"
                   /\ report.results[k].source_path = fs[b].data.source
                   /\ report.results[k].source_path \notin DOMAIN fs

\* ------------------------------------------------------------------------
\* C29
\* ------------------------------------------------------------------------
\* filesystem f without the reports directory and the reports in it
WithoutReports(f) == [p \in {q \in DOMAIN f : ~Under(q, ReportsDir)} |-> f[p]]

\* a real run has ended that began right after a dry run of the same plan
\* returned, on the filesystem that dry run began on (its report apart)
RealAfterDryRun ==
    /\ h.step = "finish" /\ ~dry_run
    /\ h.dry0.used
    /\ WithoutReports(h.dry0.fs0) = WithoutReports(h.fs0)

\* C29: every suggestion that a dry run reports as successful is reported as
\* successful by a real run of the same plan on the same initial filesystem.
C29_DryRunPredictsRealRun ==
    RealAfterDryRun =>
        \A k \in 1..Len(report.results) :
            h.dry0.success[k] => report.results[k].success

\* ------------------------------------------------------------------------
\* C30
\* ------------------------------------------------------------------------
\* the files of f other than the backup records
FilesOf(f) == {p \in DOMAIN f : IsFile(f, p) /\ p \notin BackupFiles(f)}

\* C30: undo_last_operation destroys no data: a file that exists at the
\* recorded source path when undo runs is neither overwritten nor deleted,
\* and every file present before the undo is present, at some path, after
\* it.
C30_UndoKeepsEveryFile ==
    h.step = "undo" =>
        /\ \A p \in FilesOf(h.pre) : \E q \in DOMAIN fs : fs[q] = h.pre[p]
        /\ (BackupFiles(h.pre) # {} /\ IsFile(h.pre, UndoneRecord.source)) =>
               /\ UndoneRecord.source \in DOMAIN fs
               /\ fs[UndoneRecord.source] = h.pre[UndoneRecord.source]

====
